---- MODULE Spec2Model ----
(***************************************************************************)
(* Model of the derived-attribute engine (database/database.py), the       *)
(* hierarchy reload (src/database/populate.py) and the archive ingestion   *)
(* (src/pi/extraction/ingest.py) of the Industrial-Data-Pipeline.          *)
(*                                                                         *)
(* The PostgreSQL database is the state: the element, attribute and        *)
(* archive tables, the generated trigger functions (pg_proc) and triggers  *)
(* (pg_trigger), the two constraints of the archive table and the two      *)
(* serial sequences.  archive_id is a surrogate key that no statement of   *)
(* the program reads, so the archive table is a bag of                     *)
(* (attribute_id, timestamp, value) rows.                                  *)
(***************************************************************************)
EXTENDS Integers, Sequences, FiniteSets, Bags, TLC

\* ---------------------------------------------------------------- bounds
MaxAttrId == 4      \* insert_attribute is not called once the sequence reached this id
MaxTs == 2          \* timestamps are 1..MaxTs
MaxVal == 2         \* ingested values are 1..MaxVal (and NULL)
MaxOps == 3         \* ingestion batches, web API requests and runs of populate.main

\* SQL NULL of the nullable archive.value column / parent_id of a root
NULL == 0 - 1

Timestamps == 1..MaxTs
Values == 1..MaxVal
RefIds == 1..MaxAttrId

\* ------------------------------------------------------- archive helpers
Row(a, t, v) == [attribute_id |-> a, timestamp |-> t, value |-> v]

RowsAt(arch, a, t) ==
    {r \in BagToSet(arch) : r.attribute_id = a /\ r.timestamp = t}

HasKey(arch, a, t) == RowsAt(arch, a, t) # {}

RowsOfAttr(arch, a) == {r \in BagToSet(arch) : r.attribute_id = a}

\* number of stored rows with key (a, t)
KeyCount(arch, a, t) ==
    LET S == RowsAt(arch, a, t)
        RECURSIVE Sum(_)
        Sum(R) == IF R = {} THEN 0
                  ELSE LET r == CHOOSE x \in R : TRUE
                       IN CopiesIn(r, arch) + Sum(R \ {r})
    IN Sum(S)

\* number of stored rows of attribute a
AttrCount(arch, a) ==
    LET RECURSIVE Sum(_)
        Sum(R) == IF R = {} THEN 0
                  ELSE LET r == CHOOSE x \in R : TRUE
                       IN CopiesIn(r, arch) + Sum(R \ {r})
    IN Sum(RowsOfAttr(arch, a))

AddRow(arch, r) == arch (+) SetToBag({r})

\* DELETE FROM archive WHERE attribute_id IN ids
DeleteRowsOf(arch, ids) ==
    LET keep == {r \in BagToSet(arch) : r.attribute_id \notin ids}
    IN [r \in keep |-> arch[r]]

\* the bag of (timestamp, value) pairs stored under attribute a
SeriesOf(arch, a) ==
    LET S == {<<r.timestamp, r.value>> : r \in RowsOfAttr(arch, a)}
    IN [p \in S |-> arch[Row(a, p[1], p[2])]]

\* ------------------------------------------------------------- formulas
\* A formula string is the sum of its terms: "$7 + $8" is <<Ref(7), Ref(8)>>,
\* "$7 + 1" is <<Ref(7), Lit(1)>>, "1" is <<Lit(1)>>.
Ref(n) == [k |-> "$", n |-> n]
Lit(c) == [k |-> "#", n |-> c]

\* re.findall(r'\$(\d+)', formula), as a set
FormulaRefs(f) == {f[i].n : i \in {j \in DOMAIN f : f[j].k = "$"}}

\* the arithmetic expression over the fetched source values; NULL is
\* absorbing, as in SQL
RECURSIVE EvalFormula(_, _)
EvalFormula(f, val) ==
    IF f = <<>> THEN 0
    ELSE LET h == IF Head(f).k = "$" THEN val[Head(f).n] ELSE Head(f).n
             r == EvalFormula(Tail(f), val)
         IN IF h = NULL \/ r = NULL THEN NULL ELSE h + r

\* the formula strings the callers supply: "1", "$1", "$1 + $2", "$2 + $3"
\* (3 is the id the first derived attribute gets) and "$<MaxAttrId>"
Formulas ==
    {<<Lit(1)>>, <<Ref(1)>>, <<Ref(1), Ref(2)>>, <<Ref(2), Ref(3)>>, <<Ref(MaxAttrId)>>}

\* "formula" absent from the request (or the empty string, which is falsy)
NoFormula == <<>>


\* ------------------------------------------------------------ hierarchy
Element(id, name, level, parent) ==
    [element_id |-> id, name |-> name, level |-> level, parent_id |-> parent]

Attribute(id, elem, name, kks) ==
    [attribute_id |-> id, element_id |-> elem, name |-> name, kks |-> kks]

AttrIds(attrs) == {a.attribute_id : a \in attrs}
ElemIds(elems) == {e.element_id : e \in elems}

RECURSIVE SortedSeq(_)
SortedSeq(S) ==
    IF S = {} THEN <<>>
    ELSE LET m == CHOOSE x \in S : \A y \in S : x <= y
         IN <<m>> \o SortedSeq(S \ {m})

\* The recursive CTE element_paths: the names from the root down to the
\* element.  array_to_string(path_array, '|') is kept as the sequence of the
\* names (no name of the model contains '|').
RECURSIVE ElementPath(_, _)
ElementPath(elems, e) ==
    IF e.parent_id = NULL THEN <<e.name>>
    ELSE LET p == CHOOSE x \in elems : x.element_id = e.parent_id
         IN Append(ElementPath(elems, p), e.name)

\* rows of "attribute a INNER JOIN element_paths ep": (attribute_id, full_path)
FullPathRows(elems, attrs) ==
    {<<a.attribute_id,
       Append(ElementPath(elems,
                  CHOOSE e \in elems : e.element_id = a.element_id), a.name)>>
        : a \in {x \in attrs : x.element_id \in ElemIds(elems)}}

\* The dicts "for row in result: mapping[full_path] = id" can build: one id
\* for every path; the row order of the query decides which id a path shared
\* by two attributes keeps.
PathMappings(elems, attrs) ==
    LET rows == FullPathRows(elems, attrs)
        paths == {r[2] : r \in rows}
    IN {m \in [paths -> AttrIds(attrs)] : \A p \in paths : <<m[p], p>> \in rows}

\* the pi_tree_cache.json snapshots
Node(name, attributes, children) ==
    [name |-> name, attributes |-> attributes, children |-> children]
SnapAttr(name) == [name |-> name, kks |-> "k1"]

SnapInitial == <<Node("A", <<SnapAttr("T"), SnapAttr("P")>>, <<Node("B", <<>>, <<>>)>>)>>
SnapSwapped == <<Node("A", <<SnapAttr("P"), SnapAttr("T")>>, <<Node("B", <<>>, <<>>)>>)>>
SnapReduced == <<Node("A", <<SnapAttr("P")>>, <<>>)>>
Snapshots == {SnapInitial, SnapSwapped, SnapReduced}

\* names of the attributes the PI tree knows: those ingestion has web ids for
SourceNames == {"T", "P"}

EmptyHierarchy == [element |-> {}, attribute |-> {}, eseq |-> 0, aseq |-> 0]

RECURSIVE InsertNodeAttributes(_, _, _)
InsertNodeAttributes(H, eid, attributes) ==
    IF attributes = <<>> THEN H
    ELSE InsertNodeAttributes(
            [H EXCEPT !.attribute = @ \cup
                         {Attribute(H.aseq + 1, eid, Head(attributes).name,
                                    Head(attributes).kks)},
                      !.aseq = @ + 1],
            eid, Tail(attributes))

RECURSIVE ProcessTreeNode(_, _, _, _)
RECURSIVE ProcessNodes(_, _, _, _)
ProcessTreeNode(H, node, parent_id, level) ==
    LET eid == H.eseq + 1
        H1 == [H EXCEPT !.element = @ \cup {Element(eid, node.name, level, parent_id)},
                        !.eseq = eid]
        H2 == InsertNodeAttributes(H1, eid, node.attributes)
    IN ProcessNodes(H2, node.children, eid, level + 1)

ProcessNodes(H, nodes, parent_id, level) ==
    IF nodes = <<>> THEN H
    ELSE ProcessNodes(ProcessTreeNode(H, Head(nodes), parent_id, level),
                      Tail(nodes), parent_id, level)

\* ------------------------------------------------------- live triggers
\* SELECT value INTO v FROM archive WHERE attribute_id = a AND timestamp = t
FetchValue(arch, a, t) ==
    IF HasKey(arch, a, t) THEN (CHOOSE r \in RowsAt(arch, a, t) : TRUE).value
    ELSE NULL

\* ON CONFLICT (attribute_id, "timestamp") DO UPDATE SET value = EXCLUDED.value
UpdateValue(arch, a, t, v) ==
    LET others == {r \in BagToSet(arch) : ~(r.attribute_id = a /\ r.timestamp = t)}
    IN [r \in others |-> arch[r]] (+) SetToBag({Row(a, t, v)})

Done(arch) == [ok |-> TRUE, archive |-> arch]
Failed(arch) == [ok |-> FALSE, archive |-> arch]

\* the trigger function without its two IF statements: it computes and writes
\* for every inserted row
RECURSIVE FireTriggersUnguarded(_, _, _, _)
FireTriggersUnguarded(db, st, new, todo) ==
    IF ~st.ok \/ todo = <<>> THEN st
    ELSE LET d == Head(todo)
             f == db.procs[d]
             refs == FormulaRefs(f)
             t == new.timestamp
             val == [a \in refs |-> FetchValue(st.archive, a, t)]
             v == EvalFormula(f, val)
             st1 ==
                IF HasKey(st.archive, d, t)
                     THEN Done(UpdateValue(st.archive, d, t, v))
                ELSE IF db.fkey /\ d \notin db.attrs THEN Failed(st.archive)
                ELSE FireTriggersUnguarded(db, Done(AddRow(st.archive, Row(d, t, v))),
                                  Row(d, t, v), SortedSeq(db.trigs))
         IN FireTriggersUnguarded(db, st1, new, Tail(todo))

\* db = [procs, trigs, attrs, fkey]: the trigger functions by derived id, the
\* installed triggers, the attribute ids and whether the foreign key exists.
\* FireTriggers runs, for the inserted row new, the AFTER INSERT triggers in
\* todo; a derived row that is inserted (not updated) fires them in turn.
RECURSIVE FireTriggers(_, _, _, _)
FireTriggers(db, st, new, todo) ==
    IF ~st.ok \/ todo = <<>> THEN st
    ELSE LET d == Head(todo)
             f == db.procs[d]
             refs == FormulaRefs(f)
             t == new.timestamp
             val == [a \in refs |-> FetchValue(st.archive, a, t)]
             v == EvalFormula(f, val)
             st1 ==
                IF new.attribute_id \notin refs THEN st
                ELSE IF \E a \in refs : val[a] = NULL THEN st
                ELSE IF HasKey(st.archive, d, t)
                     THEN Done(UpdateValue(st.archive, d, t, v))
                ELSE IF db.fkey /\ d \notin db.attrs THEN Failed(st.archive)
                ELSE FireTriggers(db, Done(AddRow(st.archive, Row(d, t, v))),
                                  Row(d, t, v), SortedSeq(db.trigs))
         IN FireTriggers(db, st1, new, Tail(todo))

\* INSERT of rows by one statement: the rows go in (foreign key and unique
\* constraint checked), then the row triggers fire for each of them.
RECURSIVE InsertRows(_, _, _, _)
InsertRows(db, uniq, st, rows) ==
    IF ~st.ok \/ rows = <<>> THEN st
    ELSE LET r == Head(rows)
         IN IF (db.fkey /\ r.attribute_id \notin db.attrs)
               \/ (uniq /\ HasKey(st.archive, r.attribute_id, r.timestamp))
            THEN Failed(st.archive)
            ELSE InsertRows(db, uniq, Done(AddRow(st.archive, r)), Tail(rows))

RECURSIVE FireForRows(_, _, _)
FireForRows(db, st, rows) ==
    IF ~st.ok \/ rows = <<>> THEN st
    ELSE FireForRows(db, FireTriggers(db, st, Head(rows), SortedSeq(db.trigs)),
                     Tail(rows))

InsertStatement(db, uniq, arch, rows) ==
    FireForRows(db, InsertRows(db, uniq, Done(arch), rows), rows)


\* ------------------------------------------------- derived attribute engine
\* S is the database: [element, attribute, archive, pg_proc, pg_trigger,
\* unique, fkey, eseq, aseq].  Every function returns [db, error, ...] where
\* error = "" when it returned normally.
TriggerDb(S) ==
    [procs |-> S.pg_proc, trigs |-> S.pg_trigger,
     attrs |-> AttrIds(S.attribute), fkey |-> S.fkey]

HasDuplicateKey(arch) ==
    \E r \in BagToSet(arch) : KeyCount(arch, r.attribute_id, r.timestamp) > 1

\* The values the scalar subqueries "(SELECT value ... LIMIT 1)" can return
\* for the referenced attributes: with duplicate rows any of them.
SubqueryChoices(arch, refs) ==
    LET keys == refs \X Timestamps
        vals(k) == {r.value : r \in RowsAt(arch, k[1], k[2])}
    IN IF \A k \in keys : Cardinality(vals(k)) <= 1
       THEN {[k \in keys |-> FetchValue(arch, k[1], k[2])]}
       ELSE {c \in [keys -> UNION {vals(k) : k \in keys} \cup {NULL}] :
                \A k \in keys : IF vals(k) = {} THEN c[k] = NULL ELSE c[k] \in vals(k)}

\* backfill_derived_attribute under one outcome c of the subqueries
BackfillWith(S, new_attribute_id, formula, c) ==
    LET refs == FormulaRefs(formula)
        stamps == {r.timestamp : r \in {x \in BagToSet(S.archive) : x.attribute_id \in refs}}
        value(t) == EvalFormula(formula, [a \in refs |-> c[<<a, t>>]])
        \* WHERE {sql_formula} IS NOT NULL ... ON CONFLICT DO NOTHING
        wanted == {t \in stamps : value(t) # NULL
                      /\ ~(S.unique /\ HasKey(S.archive, new_attribute_id, t))}
        order == SortedSeq(wanted)
        rows == [i \in DOMAIN order |-> Row(new_attribute_id, order[i], value(order[i]))]
        st == InsertStatement(TriggerDb(S), S.unique, S.archive, rows)
    IN IF refs = {} THEN [db |-> S, error |-> "", inserted |-> 0]
       ELSE IF refs \ AttrIds(S.attribute) # {}
            THEN [db |-> S, error |-> "UnknownAttribute", inserted |-> 0]
       ELSE IF ~st.ok THEN [db |-> S, error |-> "StorageError", inserted |-> 0]
       ELSE [db |-> [S EXCEPT !.archive = st.archive], error |-> "",
             inserted |-> Len(rows)]

backfill_derived_attribute(S, new_attribute_id, formula) ==
    {BackfillWith(S, new_attribute_id, formula, c) :
        c \in SubqueryChoices(S.archive, FormulaRefs(formula))}

ensure_archive_unique_constraint(S) ==
    IF S.unique THEN [db |-> S, error |-> ""]
    ELSE IF HasDuplicateKey(S.archive) THEN [db |-> S, error |-> "StorageError"]
    ELSE [db |-> [S EXCEPT !.unique = TRUE], error |-> ""]

create_derived_attribute_trigger(S, derived_attribute_id, formula) ==
    LET e == ensure_archive_unique_constraint(S)
    IN IF e.error # "" THEN e
       ELSE IF FormulaRefs(formula) = {} THEN [db |-> e.db, error |-> "InvalidFormula"]
       ELSE [db |-> [e.db EXCEPT
                       !.pg_proc = [i \in DOMAIN @ \cup {derived_attribute_id} |->
                                      IF i = derived_attribute_id THEN formula ELSE @[i]],
                       !.pg_trigger = @ \cup {derived_attribute_id}],
             error |-> ""]

\* drop_derived_attribute_trigger without the DROP FUNCTION
drop_derived_attribute_trigger_only(S, derived_attribute_id) ==
    [S EXCEPT !.pg_trigger = @ \ {derived_attribute_id}]

drop_derived_attribute_trigger(S, derived_attribute_id) ==
    [S EXCEPT !.pg_trigger = @ \ {derived_attribute_id},
              !.pg_proc = [i \in DOMAIN @ \ {derived_attribute_id} |-> @[i]]]

\* attribute_data = [name, element_id, kks, formula, create_trigger]
insert_attribute(S, attribute_data) ==
    LET attribute_id == S.aseq + 1
        S1 == [S EXCEPT !.attribute = @ \cup
                            {Attribute(attribute_id, attribute_data.element_id,
                                       attribute_data.name, attribute_data.kks)},
                        !.aseq = attribute_id]
        withFormula(b) ==
            IF b.error # "" THEN [db |-> b.db, error |-> b.error, attribute_id |-> attribute_id]
            ELSE IF ~attribute_data.create_trigger
                 THEN [db |-> b.db, error |-> "", attribute_id |-> attribute_id]
            ELSE LET t == create_derived_attribute_trigger(b.db, attribute_id,
                                                           attribute_data.formula)
                 IN [db |-> t.db, error |-> t.error, attribute_id |-> attribute_id]
    IN IF attribute_data.element_id \notin ElemIds(S.element)
       THEN {[db |-> S, error |-> "StorageError", attribute_id |-> 0]}
       ELSE IF attribute_data.formula = NoFormula
            THEN {[db |-> S1, error |-> "", attribute_id |-> attribute_id]}
       ELSE {withFormula(b) :
                b \in backfill_derived_attribute(S1, attribute_id, attribute_data.formula)}

\* UPDATE attribute SET name = .., kks = .. WHERE attribute_id = id, with
\* the fields that were supplied
WithFields(attrs, id, name, kks) ==
    {IF a.attribute_id = id
     THEN [a EXCEPT !.name = IF name # "" THEN name ELSE @,
                    !.kks = IF kks # "" THEN kks ELSE @]
     ELSE a : a \in attrs}

\* "except Exception: conn.rollback(); raise Exception(...)": what was committed
\* stays, and the caller gets the message alone, the results dict is dropped
NoResults == <<>>

Raised(S, error) == [db |-> S, error |-> error, results |-> NoResults]

\* results['updated_fields']
UpdatedFields(update_data) ==
    [updated_fields |-> {k \in {"name", "kks"} : update_data[k] # ""}
                          \cup (IF update_data.formula # NoFormula THEN {"formula"} ELSE {})]

\* update_attribute without the check for a trigger function
update_attribute_unchecked(S, attribute_id, update_data) ==
    IF attribute_id \notin AttrIds(S.attribute) THEN {Raised(S, "NotFound")}
    ELSE IF update_data.name = "" /\ update_data.kks = "" /\ update_data.formula = NoFormula
         THEN {Raised(S, "NoFieldsProvided")}
    ELSE {[db |-> [S EXCEPT !.attribute = WithFields(@, attribute_id, update_data.name,
                                                     update_data.kks)],
           error |-> "", results |-> UpdatedFields(update_data)]}

\* update_attribute writing name and kks before the check for a trigger function
update_attribute_fields_first(S, attribute_id, update_data) ==
    LET S1 == [S EXCEPT !.attribute = WithFields(@, attribute_id, update_data.name,
                                                 update_data.kks)]
    IN IF attribute_id \notin AttrIds(S.attribute) THEN {Raised(S, "NotFound")}
       ELSE IF attribute_id \notin DOMAIN S.pg_proc
            THEN {Raised(S1, "NotDerived")}
       ELSE {[db |-> S1, error |-> "", results |-> UpdatedFields(update_data)]}

\* update_attribute without the DELETE of the old derived rows
update_attribute_keeping_rows(S, attribute_id, update_data) ==
    LET has_trigger == attribute_id \in DOMAIN S.pg_proc
        S1 == [S EXCEPT !.attribute = WithFields(@, attribute_id, update_data.name,
                                                 update_data.kks)]
        S2 == drop_derived_attribute_trigger(S1, attribute_id)
        S3 == S2
        dropped == UpdatedFields(update_data) @@ [trigger_dropped |-> TRUE]
        recomputed(b) ==
            dropped @@ [archive_records_deleted |-> AttrCount(S2.archive, attribute_id),
                        archive_records_inserted |-> b.inserted]
        recreate(b, results) ==
            IF b.error # "" THEN Raised(b.db, b.error)
            ELSE IF ~update_data.recreate_trigger
                 THEN [db |-> b.db, error |-> "", results |-> results]
            ELSE LET t == create_derived_attribute_trigger(b.db, attribute_id,
                                                           update_data.formula)
                 IN IF t.error # "" THEN Raised(t.db, t.error)
                    ELSE [db |-> t.db, error |-> "",
                          results |-> results @@ [trigger_created |-> TRUE]]
    IN IF attribute_id \notin AttrIds(S.attribute) THEN {Raised(S, "NotFound")}
       ELSE IF ~has_trigger THEN {Raised(S, "NotDerived")}
       ELSE IF update_data.formula # NoFormula
            THEN IF update_data.recompute_archive
                 THEN {recreate(b, recomputed(b)) :
                         b \in backfill_derived_attribute(S3, attribute_id, update_data.formula)}
                 ELSE {recreate([db |-> S2, error |-> ""], dropped)}
       ELSE IF update_data.name = "" /\ update_data.kks = ""
            THEN {Raised(S, "NoFieldsProvided")}
       ELSE {[db |-> S1, error |-> "", results |-> UpdatedFields(update_data)]}

\* update_data = [name, kks, formula, recompute_archive, recreate_trigger];
\* name = "" / kks = "" / formula = NoFormula when the key is absent or falsy
\* update_attribute that drops the old trigger only when it is to install a
\* new one
update_attribute_keeping_trigger(S, attribute_id, update_data) ==
    LET has_trigger == attribute_id \in DOMAIN S.pg_proc
        S1 == [S EXCEPT !.attribute = WithFields(@, attribute_id, update_data.name,
                                                 update_data.kks)]
        S2 == IF update_data.recreate_trigger
              THEN drop_derived_attribute_trigger(S1, attribute_id) ELSE S1
        S3 == [S2 EXCEPT !.archive = DeleteRowsOf(@, {attribute_id})]
        dropped == UpdatedFields(update_data) @@ [trigger_dropped |-> TRUE]
        recomputed(b) ==
            dropped @@ [archive_records_deleted |-> AttrCount(S2.archive, attribute_id),
                        archive_records_inserted |-> b.inserted]
        recreate(b, results) ==
            IF b.error # "" THEN Raised(b.db, b.error)
            ELSE IF ~update_data.recreate_trigger
                 THEN [db |-> b.db, error |-> "", results |-> results]
            ELSE LET t == create_derived_attribute_trigger(b.db, attribute_id,
                                                           update_data.formula)
                 IN IF t.error # "" THEN Raised(t.db, t.error)
                    ELSE [db |-> t.db, error |-> "",
                          results |-> results @@ [trigger_created |-> TRUE]]
    IN IF attribute_id \notin AttrIds(S.attribute) THEN {Raised(S, "NotFound")}
       ELSE IF ~has_trigger THEN {Raised(S, "NotDerived")}
       ELSE IF update_data.formula # NoFormula
            THEN IF update_data.recompute_archive
                 THEN {recreate(b, recomputed(b)) :
                         b \in backfill_derived_attribute(S3, attribute_id, update_data.formula)}
                 ELSE {recreate([db |-> S2, error |-> ""], dropped)}
       ELSE IF update_data.name = "" /\ update_data.kks = ""
            THEN {Raised(S, "NoFieldsProvided")}
       ELSE {[db |-> S1, error |-> "", results |-> UpdatedFields(update_data)]}

update_attribute(S, attribute_id, update_data) ==
    LET has_trigger == attribute_id \in DOMAIN S.pg_proc
        S1 == [S EXCEPT !.attribute = WithFields(@, attribute_id, update_data.name,
                                                 update_data.kks)]
        S2 == drop_derived_attribute_trigger(S1, attribute_id)
        S3 == [S2 EXCEPT !.archive = DeleteRowsOf(@, {attribute_id})]
        dropped == UpdatedFields(update_data) @@ [trigger_dropped |-> TRUE]
        recomputed(b) ==
            dropped @@ [archive_records_deleted |-> AttrCount(S2.archive, attribute_id),
                        archive_records_inserted |-> b.inserted]
        recreate(b, results) ==
            IF b.error # "" THEN Raised(b.db, b.error)
            ELSE IF ~update_data.recreate_trigger
                 THEN [db |-> b.db, error |-> "", results |-> results]
            ELSE LET t == create_derived_attribute_trigger(b.db, attribute_id,
                                                           update_data.formula)
                 IN IF t.error # "" THEN Raised(t.db, t.error)
                    ELSE [db |-> t.db, error |-> "",
                          results |-> results @@ [trigger_created |-> TRUE]]
    IN IF attribute_id \notin AttrIds(S.attribute) THEN {Raised(S, "NotFound")}
       ELSE IF ~has_trigger THEN {Raised(S, "NotDerived")}
       ELSE IF update_data.formula # NoFormula
            THEN IF update_data.recompute_archive
                 THEN {recreate(b, recomputed(b)) :
                         b \in backfill_derived_attribute(S3, attribute_id, update_data.formula)}
                 ELSE {recreate([db |-> S2, error |-> ""], dropped)}
       ELSE IF update_data.name = "" /\ update_data.kks = ""
            THEN {Raised(S, "NoFieldsProvided")}
       ELSE {[db |-> S1, error |-> "", results |-> UpdatedFields(update_data)]}

\* delete_attribute without the drop of the trigger and its function
delete_attribute_keeping_trigger(S, attribute_id) ==
    [db |-> [S EXCEPT !.archive = DeleteRowsOf(@, {attribute_id}),
                      !.attribute = {a \in @ : a.attribute_id # attribute_id}],
     error |-> "",
     archive_records_deleted |-> AttrCount(S.archive, attribute_id)]

delete_attribute(S, attribute_id) ==
    LET S1 == drop_derived_attribute_trigger(S, attribute_id)
    IN [db |-> [S1 EXCEPT !.archive = DeleteRowsOf(@, {attribute_id}),
                          !.attribute = {a \in @ : a.attribute_id # attribute_id}],
        error |-> "",
        archive_records_deleted |-> AttrCount(S.archive, attribute_id)]

\* element_data = [name, level, parent_id]; the INSERT stores the level and the
\* parent_id of the request as given (parent_id NULL when the key is absent);
\* a parent_id without element row violates the foreign key of element
insert_element(S, element_data) ==
    IF element_data.parent_id # NULL /\ element_data.parent_id \notin ElemIds(S.element)
    THEN [db |-> S, error |-> "StorageError", element_id |-> 0]
    ELSE [db |-> [S EXCEPT !.element = @ \cup
                     {Element(S.eseq + 1, element_data.name, element_data.level,
                              element_data.parent_id)},
                           !.eseq = @ + 1],
          error |-> "", element_id |-> S.eseq + 1]

\* delete_element: the archive rows and the attributes of the element, then
\* the element; an element that is the parent of another cannot be deleted
\* (foreign key of element.parent_id), and the transaction is rolled back
delete_element(S, element_id) ==
    LET attrs == {a \in S.attribute : a.element_id = element_id}
    IN IF \E c \in S.element : c.parent_id = element_id
       THEN [db |-> S, error |-> "StorageError"]
       ELSE [db |-> [S EXCEPT !.archive = DeleteRowsOf(@, AttrIds(attrs)),
                              !.attribute = @ \ attrs,
                              !.element = {e \in @ : e.element_id # element_id}],
             error |-> ""]

\* ---------------------------------------------------------------- reload
RECURSIVE Orders(_)
\* the orders in which the rows of a query without ORDER BY can arrive
Orders(S) ==
    IF S = {} THEN {<<>>}
    ELSE UNION {{<<x>> \o o : o \in Orders(S \ {x})} : x \in S}

DerivedBackup(a, path) ==
    [attribute_id |-> a.attribute_id, name |-> a.name, kks |-> a.kks,
     old_element_id |-> a.element_id, element_path |-> path]

\* backup_derived_attributes: the (derived_attributes, old_attribute_mapping)
\* pairs it can return
backup_derived_attributes(S) ==
    LET trigger_attr_ids == DOMAIN S.pg_proc
        found == {DerivedBackup(a, ElementPath(S.element,
                                   CHOOSE e \in S.element : e.element_id = a.element_id))
                    : a \in {x \in S.attribute : x.attribute_id \in trigger_attr_ids
                                                 /\ x.element_id \in ElemIds(S.element)}}
    IN {<<d, m>> : d \in Orders(found), m \in PathMappings(S.element, S.attribute)}

\* create_tables with a DROP that takes the rows referencing the dropped
\* attributes with it
create_tables_cascading(S) ==
    [S EXCEPT !.fkey = FALSE, !.element = {}, !.attribute = {}, !.eseq = 0, !.aseq = 0,
              !.archive = EmptyBag]

\* create_tables with the archive table present: the foreign key goes, the
\* element and attribute tables (and their sequences) are dropped and made anew
create_tables(S) ==
    [S EXCEPT !.fkey = FALSE, !.element = {}, !.attribute = {}, !.eseq = 0, !.aseq = 0]

\* the loop over the root nodes of populate_database
process_tree(S, tree_data) ==
    LET H == ProcessNodes([element |-> S.element, attribute |-> S.attribute,
                           eseq |-> S.eseq, aseq |-> S.aseq], tree_data, NULL, 0)
    IN [S EXCEPT !.element = H.element, !.attribute = H.attribute,
                 !.eseq = H.eseq, !.aseq = H.aseq]

\* restore_derived_attributes re-inserting under the recorded element id when
\* the path is not found
RECURSIVE restore_derived_attributes_by_id(_, _)
restore_derived_attributes_by_id(S, derived) ==
    IF derived = <<>> THEN S
    ELSE LET attr == Head(derived)
             rows == {e \in S.element : ElementPath(S.element, e) = attr.element_path}
             new_element_id == IF rows = {} THEN attr.old_element_id
                               ELSE (CHOOSE e \in rows : TRUE).element_id
             exists == \E a \in S.attribute :
                          a.element_id = new_element_id /\ a.name = attr.name
             S1 == IF exists THEN S
                   ELSE [S EXCEPT !.attribute = @ \cup
                            {Attribute(S.aseq + 1, new_element_id, attr.name, attr.kks)},
                                  !.aseq = @ + 1]
         IN restore_derived_attributes_by_id(S1, Tail(derived))

RECURSIVE restore_derived_attributes(_, _)
restore_derived_attributes(S, derived) ==
    IF derived = <<>> THEN S
    ELSE LET attr == Head(derived)
             rows == {e \in S.element : ElementPath(S.element, e) = attr.element_path}
             new_element_id == (CHOOSE e \in rows : TRUE).element_id
             exists == \E a \in S.attribute :
                          a.element_id = new_element_id /\ a.name = attr.name
             S1 == IF rows = {} \/ exists THEN S
                   ELSE [S EXCEPT !.attribute = @ \cup
                            {Attribute(S.aseq + 1, new_element_id, attr.name, attr.kks)},
                                  !.aseq = @ + 1]
         IN restore_derived_attributes(S1, Tail(derived))

\* the names restore_derived_attributes prints with "Could not find parent
\* element for derived attribute"
parent_not_found(S, derived) ==
    {derived[i].name : i \in {j \in DOMAIN derived :
        \A e \in S.element : ElementPath(S.element, e) # derived[j].element_path}}

\* id_mapping of update_archive_attribute_ids
IdMapping(old_mapping, new_mapping) ==
    LET moved == {p \in DOMAIN old_mapping :
                     p \in DOMAIN new_mapping /\ old_mapping[p] # new_mapping[p]}
        olds == {old_mapping[p] : p \in moved}
    IN [o \in olds |-> new_mapping[CHOOSE p \in moved : old_mapping[p] = o]]

\* UPDATE archive SET attribute_id = :new_id WHERE attribute_id = :old_id
UpdateArchiveId(st, uniq, old_id, new_id) ==
    LET moved == RowsOfAttr(st.archive, old_id)
        target(r) == Row(new_id, r.timestamp, r.value)
        rest == DeleteRowsOf(st.archive, {old_id})
        relabelled == [r \in {target(m) : m \in moved} |->
                          st.archive[Row(old_id, r.timestamp, r.value)]]
    IN IF ~st.ok THEN st
       ELSE IF uniq /\ \E m \in moved : HasKey(st.archive, new_id, m.timestamp)
            THEN Failed(st.archive)
       ELSE Done(rest (+) relabelled)

RECURSIVE UpdateArchiveIds(_, _, _, _)
UpdateArchiveIds(st, uniq, id_mapping, order) ==
    IF order = <<>> THEN st
    ELSE UpdateArchiveIds(UpdateArchiveId(st, uniq, Head(order), id_mapping[Head(order)]),
                          uniq, id_mapping, Tail(order))

\* update_archive_attribute_ids: the outcomes over the dict orders; an UPDATE
\* that violates the unique constraint raises and nothing is committed
update_archive_attribute_ids(S, old_mapping) ==
    LET outcome(id_mapping, order) ==
            LET st == UpdateArchiveIds(Done(S.archive), S.unique, id_mapping, order)
            IN IF st.ok THEN [db |-> [S EXCEPT !.archive = st.archive], error |-> ""]
               ELSE [db |-> S, error |-> "StorageError"]
    IN UNION {{outcome(IdMapping(old_mapping, nm), o) :
                  o \in Orders(DOMAIN IdMapping(old_mapping, nm))}
                : nm \in PathMappings(S.element, S.attribute)}

\* DELETE FROM archive WHERE attribute_id NOT IN (SELECT attribute_id FROM attribute)
delete_orphans(S) ==
    LET keep == {r \in BagToSet(S.archive) : r.attribute_id \in AttrIds(S.attribute)}
    IN [S EXCEPT !.archive = [r \in keep |-> S.archive[r]]]

\* ALTER TABLE archive ADD CONSTRAINT archive_attribute_id_fkey when it is
\* absent; the statement fails on a row without its attribute, and the
\* exception is caught and printed
restore_foreign_key(S) ==
    IF S.fkey \/ \E r \in BagToSet(S.archive) : r.attribute_id \notin AttrIds(S.attribute)
    THEN S
    ELSE [S EXCEPT !.fkey = TRUE]

\* ------------------------------------------------------------ ingestion
MaxBatch == 1       \* rows of one ingestion batch

\* drop_duplicates keeping the last row of a key
RECURSIVE DropDuplicatesKeepLast(_, _)
DropDuplicatesKeepLast(rows, seen) ==
    IF rows = <<>> THEN <<>>
    ELSE IF \E i \in 2..Len(rows) : /\ rows[i].attribute_id = Head(rows).attribute_id
                                     /\ rows[i].timestamp = Head(rows).timestamp
         THEN DropDuplicatesKeepLast(Tail(rows), seen)
    ELSE <<Head(rows)>> \o DropDuplicatesKeepLast(Tail(rows), seen)

\* A value of the PI response as read_data puts it in the frame: a JSON
\* boolean, a number, or nothing (null, or a dict replaced by None)
RawBool(b) == [k |-> IF b THEN "True" ELSE "False", n |-> 0]
RawNumber(n) == [k |-> "number", n |-> n]
RawNone == [k |-> "None", n |-> 0]

\* df['value'].apply(lambda x: 1 if x is True else 0 if x is False else x),
\* then pd.to_numeric(errors='coerce')
to_numeric(x) ==
    CASE x.k = "True" -> 1
      [] x.k = "False" -> 0
      [] x.k = "number" -> x.n
      [] OTHER -> NULL

\* the frame after df = df[df['attribute_id'].notna()], with the values
\* converted (attribute_id NULL: the path of the row is not in attribute_id_map)
RECURSIVE CleanedFrame(_)
CleanedFrame(df) ==
    IF df = <<>> THEN <<>>
    ELSE IF Head(df).attribute_id = NULL THEN CleanedFrame(Tail(df))
    ELSE <<Row(Head(df).attribute_id, Head(df).timestamp, to_numeric(Head(df).value))>>
           \o CleanedFrame(Tail(df))

\* df.drop_duplicates(subset=['attribute_id', 'timestamp'], keep='first')
RECURSIVE DropDuplicates(_, _)
DropDuplicates(rows, seen) ==
    IF rows = <<>> THEN <<>>
    ELSE LET k == <<Head(rows).attribute_id, Head(rows).timestamp>>
         IN IF k \in seen THEN DropDuplicates(Tail(rows), seen)
            ELSE <<Head(rows)>> \o DropDuplicates(Tail(rows), seen \cup {k})

\* populate_data that commits what went in before the error
populate_data_partial(S, df) ==
    LET rows == DropDuplicates(df, {})
        st == InsertStatement(TriggerDb(S), S.unique, S.archive, rows)
    IN IF st.ok THEN [db |-> [S EXCEPT !.archive = st.archive], error |-> "",
                      raised |-> FALSE]
       ELSE [db |-> [S EXCEPT !.archive = st.archive], error |-> "StorageError",
             raised |-> FALSE]

\* populate_data: the cleaned batch goes in by COPY in one transaction; an
\* error rolls the transaction back and is swallowed: it is printed (error)
\* and the function returns (raised is false).
populate_data(S, df) ==
    LET rows == DropDuplicates(df, {})
        st == InsertStatement(TriggerDb(S), S.unique, S.archive, rows)
    IN IF st.ok THEN [db |-> [S EXCEPT !.archive = st.archive], error |-> "",
                      raised |-> FALSE]
       ELSE [db |-> S, error |-> "StorageError", raised |-> FALSE]

\* ---------------------------------------------------------------- state
VARIABLES
    element,                \* table element
    attribute,              \* table attribute
    archive,                \* table archive, a bag of rows
    pg_proc,                \* compute_derived_attr_<id> functions: id -> formula
    pg_trigger,             \* ids with trigger_compute_derived_attr_<id> on archive
    unique_constraint,      \* archive_attribute_timestamp_unique exists
    fkey_constraint,        \* archive_attribute_id_fkey exists
    element_seq,            \* last value of the element_id sequence
    attribute_seq,          \* last value of the attribute_id sequence
    attribute_id_map,       \* attribute_mapping_*.json: full path -> attribute_id
    pending,                \* the API call that stands between its backfill and its trigger
    now_dt,                 \* the wall clock of the ingestion host, in hours
    tx,                     \* the open transaction of each ingestion worker
    race,                   \* the last pair of overlapping worker writes
    reload_pc,              \* position of populate.main
    reload_snapshot,        \* the tree of the run
    derived_attributes,     \* derived_attrs of populate.main
    old_attribute_mapping,  \* old_mapping of populate.main
    ops,                    \* operations performed so far
    last,                   \* the last operation and what it reported
    history                 \* the database states the reload properties compare

db_vars == <<element, attribute, archive, pg_proc, pg_trigger, unique_constraint,
             fkey_constraint, element_seq, attribute_seq>>
reload_vars == <<reload_pc, reload_snapshot, derived_attributes, old_attribute_mapping>>
vars == <<db_vars, attribute_id_map, pending, now_dt, tx, race, reload_vars, ops, last, history>>

Database ==
    [element |-> element, attribute |-> attribute, archive |-> archive,
     pg_proc |-> pg_proc, pg_trigger |-> pg_trigger, unique |-> unique_constraint,
     fkey |-> fkey_constraint, eseq |-> element_seq, aseq |-> attribute_seq]

Store(S) ==
    /\ element' = S.element
    /\ attribute' = S.attribute
    /\ archive' = S.archive
    /\ pg_proc' = S.pg_proc
    /\ pg_trigger' = S.pg_trigger
    /\ unique_constraint' = S.unique
    /\ fkey_constraint' = S.fkey
    /\ element_seq' = S.eseq
    /\ attribute_seq' = S.aseq

\* two ingestion workers with a connection each to one database: threads of
\* ingest.main whose config sections name it, or two runs of ingest.py
Workers == {"w1", "w2"}

\* add: the rows the transaction inserted, del: the rows it replaced
NoTx == [open |-> FALSE, add |-> EmptyBag, del |-> EmptyBag]

NoPending == [op |-> "none", id |-> 0, formula |-> NoFormula]

NoRace == [phase |-> "none", base |-> <<>>, first |-> <<>>, second |-> <<>>,
           result |-> EmptyBag]

NoCall == [op |-> "none", id |-> 0, error |-> "", formula |-> FALSE,
           derived |-> FALSE, count |-> 0, name |-> "", kks |-> "",
           data |-> <<>>, results |-> NoResults, warnings |-> {}, raised |-> FALSE]

\* The database after the first run of populate.main on an empty server:
\* create_all made the three tables (the archive with its foreign key and no
\* unique constraint) and the tree of the first snapshot went in.
InitialHierarchy == ProcessNodes(EmptyHierarchy, SnapInitial, NULL, 0)

Init ==
    /\ element = InitialHierarchy.element
    /\ attribute = InitialHierarchy.attribute
    /\ archive = EmptyBag
    /\ pg_proc = <<>>
    /\ pg_trigger = {}
    /\ unique_constraint = FALSE
    /\ fkey_constraint = TRUE
    /\ element_seq = InitialHierarchy.eseq
    /\ attribute_seq = InitialHierarchy.aseq
    /\ attribute_id_map \in PathMappings(element, attribute)
    /\ tx = [w \in Workers |-> NoTx]
    /\ race = NoRace
    /\ reload_pc = "idle"
    /\ reload_snapshot = <<>>
    /\ derived_attributes = <<>>
    /\ old_attribute_mapping = <<>>
    /\ ops = 0
    /\ last = NoCall
    /\ pending = NoPending
    /\ now_dt = MaxTs + 1
    /\ history = [before |-> [archive |-> EmptyBag, paths |-> {}],
                  runs |-> <<>>, clean |-> FALSE, during |-> {}]

Touched == history' = [history EXCEPT !.clean = FALSE]

\* ----------------------------------------------------------- operations
\* the ids ingestion maps the PI paths to
IngestIds ==
    {attribute_id_map[p] : p \in {q \in DOMAIN attribute_id_map : q[Len(q)] \in SourceNames}}

IngestRows == {Row(a, t, v) : a \in IngestIds, t \in Timestamps, v \in Values \cup {NULL}}

Batches == UNION {[1..n -> IngestRows] : n \in 1..MaxBatch}

\* one run of populate_data on one connection, committed before anything else
PopulateData(df) ==
    /\ reload_pc = "idle"
    /\ ops < MaxOps
    /\ LET r == populate_data(Database, df)
       IN /\ Store(r.db)
          /\ last' = [NoCall EXCEPT !.op = "populate_data", !.error = r.error,
                                    !.raised = r.raised, !.data = df]
    /\ ops' = ops + 1
    /\ Touched
    /\ UNCHANGED <<pending, now_dt, tx, race, attribute_id_map, reload_vars>>

NewAttrNames == {"D"}

AttributeData ==
    [name : NewAttrNames, element_id : ElemIds(element), kks : {"k2"},
     formula : Formulas \cup {NoFormula}, create_trigger : BOOLEAN]

\* POST /api/attribute/insert
InsertAttribute(attribute_data) ==
    /\ reload_pc = "idle"
    /\ ops < MaxOps
    /\ attribute_seq < MaxAttrId
    /\ \E r \in insert_attribute(Database, attribute_data) :
          /\ Store(r.db)
          /\ last' = [NoCall EXCEPT !.op = "insert_attribute", !.id = r.attribute_id,
                                    !.error = r.error,
                                    !.formula = attribute_data.formula # NoFormula,
                                    !.data = attribute_data]
    /\ ops' = ops + 1
    /\ Touched
    /\ UNCHANGED <<pending, now_dt, tx, race, attribute_id_map, reload_vars>>

UpdateData ==
    [name : {"", "E"}, kks : {"", "k3"}, formula : {NoFormula},
     recompute_archive : {TRUE}, recreate_trigger : {TRUE}]
    \cup [name : {"", "E"}, kks : {""}, formula : Formulas,
          recompute_archive : BOOLEAN, recreate_trigger : BOOLEAN]

\* POST /api/attribute/update
UpdateAttribute(attribute_id, update_data) ==
    /\ reload_pc = "idle"
    /\ ops < MaxOps
    /\ \E r \in update_attribute(Database, attribute_id, update_data) :
          /\ Store(r.db)
          /\ last' = [NoCall EXCEPT !.op = "update_attribute", !.id = attribute_id,
                                    !.error = r.error,
                                    !.formula = update_data.formula # NoFormula,
                                    !.derived = attribute_id \in DOMAIN pg_proc,
                                    !.name = update_data.name,
                                    !.kks = update_data.kks,
                                    !.data = update_data,
                                    !.results = r.results]
    /\ ops' = ops + 1
    /\ Touched
    /\ UNCHANGED <<pending, now_dt, tx, race, attribute_id_map, reload_vars>>

\* POST /api/attribute/delete
DeleteAttribute(attribute_id) ==
    /\ reload_pc = "idle"
    /\ ops < MaxOps
    /\ LET r == delete_attribute(Database, attribute_id)
       IN /\ Store(r.db)
          /\ last' = [NoCall EXCEPT !.op = "delete_attribute", !.id = attribute_id,
                                    !.error = r.error,
                                    !.derived = attribute_id \in DOMAIN pg_proc,
                                    !.count = r.archive_records_deleted]
    /\ ops' = ops + 1
    /\ Touched
    /\ UNCHANGED <<pending, now_dt, tx, race, attribute_id_map, reload_vars>>

MaxElemId == 4      \* element ids in use
MaxLevel == 1       \* levels a request for a new element names

ElementData ==
    [name : {"C"}, level : 0..MaxLevel, parent_id : {NULL} \cup 1..MaxElemId]

\* POST /api/element/insert
InsertElement(element_data) ==
    /\ reload_pc = "idle"
    /\ ops < MaxOps
    /\ element_seq < MaxElemId
    /\ LET r == insert_element(Database, element_data)
       IN /\ Store(r.db)
          /\ last' = [NoCall EXCEPT !.op = "insert_element", !.id = r.element_id,
                                    !.error = r.error, !.data = element_data]
    /\ ops' = ops + 1
    /\ Touched
    /\ UNCHANGED <<pending, now_dt, tx, race, attribute_id_map, reload_vars>>

\* POST /api/element/delete
DeleteElement(element_id) ==
    /\ reload_pc = "idle"
    /\ ops < MaxOps
    /\ LET r == delete_element(Database, element_id)
       IN /\ Store(r.db)
          /\ last' = [NoCall EXCEPT !.op = "delete_element", !.id = element_id,
                                    !.error = r.error]
    /\ ops' = ops + 1
    /\ Touched
    /\ UNCHANGED <<pending, now_dt, tx, race, attribute_id_map, reload_vars>>

ElementNext ==
    \/ \E d \in ElementData : InsertElement(d)
    \/ \E e \in 1..MaxElemId : DeleteElement(e)

MaxRawBatch == 3    \* rows of one frame of read_data
MaxIngests == 1     \* frames ingested in a run of the raw feed

RawValues == {RawBool(TRUE), RawBool(FALSE), RawNone, RawNumber(MaxVal)}

RawRows ==
    [attribute_id : IngestIds \cup {NULL}, timestamp : Timestamps, value : RawValues]

RawBatches == UNION {[1..n -> RawRows] : n \in 1..MaxRawBatch}

\* populate_data on a frame as read_data returns it
IngestFrame(df) ==
    /\ reload_pc = "idle"
    /\ ops < MaxIngests
    /\ LET cleaned == CleanedFrame(df)
           r == populate_data(Database, cleaned)
       IN IF cleaned = <<>>
          THEN /\ Store(Database)
               /\ last' = [NoCall EXCEPT !.op = "populate_data",
                                         !.error = "NoValidRows", !.raised = TRUE,
                                         !.data = df]
          ELSE /\ Store(r.db)
               /\ last' = [NoCall EXCEPT !.op = "populate_data", !.error = r.error,
                                         !.raised = r.raised, !.data = df,
                                         !.results = DropDuplicates(cleaned, {})]
    /\ ops' = ops + 1
    /\ Touched
    /\ UNCHANGED <<pending, now_dt, tx, race, attribute_id_map, reload_vars>>

EngineNext ==
    \/ \E df \in Batches : PopulateData(df)
    \/ \E d \in AttributeData : InsertAttribute(d)
    \/ \E a \in 1..MaxAttrId, d \in UpdateData : UpdateAttribute(a, d)
    \/ \E a \in 1..MaxAttrId : DeleteAttribute(a)

SpecEngine == Init /\ [][EngineNext]_vars

MaxWideBatch == 2   \* rows of an ingestion batch where the batch is looked at row by row

\* batches of MaxWideBatch rows that carry a value
WideBatches == [1..MaxWideBatch -> {r \in IngestRows : r.value # NULL}]

\* ingestion of batches of several rows among the creation and the deletion
\* of attributes
BatchNext ==
    \/ \E df \in WideBatches : PopulateData(df)
    \/ \E d \in AttributeData : InsertAttribute(d)
    \/ \E a \in 1..MaxAttrId : DeleteAttribute(a)

SpecBatch == Init /\ [][BatchNext]_vars

\* ------------------------------------------------------- populate.main
\* 1. backup_derived_attributes
ReloadBackup(snapshot) ==
    /\ reload_pc = "idle"
    /\ ops < MaxOps
    /\ \E b \in backup_derived_attributes(Database) :
          /\ derived_attributes' = b[1]
          /\ old_attribute_mapping' = b[2]
    /\ reload_snapshot' = snapshot
    /\ reload_pc' = "backed_up"
    /\ ops' = ops + 1
    /\ history' = [history EXCEPT !.before =
                      [archive |-> archive, paths |-> FullPathRows(element, attribute)],
                                   !.during = {}]
    /\ last' = [NoCall EXCEPT !.op = "reload"]
    /\ UNCHANGED <<db_vars, pending, now_dt, tx, race, attribute_id_map>>

\* 2. create_tables
ReloadCreateTables ==
    /\ reload_pc = "backed_up"
    /\ Store(create_tables(Database))
    /\ reload_pc' = "torn_down"
    /\ UNCHANGED <<pending, now_dt, tx, race, attribute_id_map, reload_snapshot, derived_attributes,
                   old_attribute_mapping, ops, last, history>>

\* 3. populate_database: the tree
ReloadProcessTree ==
    /\ reload_pc = "torn_down"
    /\ Store(process_tree(Database, reload_snapshot))
    /\ reload_pc' = "rebuilt"
    /\ UNCHANGED <<pending, now_dt, tx, race, attribute_id_map, reload_snapshot, derived_attributes,
                   old_attribute_mapping, ops, last, history>>

\* populate_database: restore_derived_attributes
ReloadRestoreDerived ==
    /\ reload_pc = "rebuilt"
    /\ Store(restore_derived_attributes(Database, derived_attributes))
    /\ last' = [last EXCEPT !.warnings = parent_not_found(Database, derived_attributes)]
    /\ reload_pc' = "restored"
    /\ UNCHANGED <<pending, now_dt, tx, race, attribute_id_map, reload_snapshot, derived_attributes,
                   old_attribute_mapping, ops, history>>

\* populate_database: update_archive_attribute_ids; its exception ends the script
ReloadUpdateArchiveIds ==
    /\ reload_pc = "restored"
    /\ \E r \in update_archive_attribute_ids(Database, old_attribute_mapping) :
          /\ Store(r.db)
          /\ reload_pc' = IF r.error = "" THEN "remapped" ELSE "idle"
          /\ last' = [last EXCEPT !.error = r.error]
          /\ history' = IF r.error = "" THEN history
                        ELSE [history EXCEPT !.clean = FALSE]
    /\ UNCHANGED <<pending, now_dt, tx, race, attribute_id_map, reload_snapshot, derived_attributes,
                   old_attribute_mapping, ops>>

\* populate_database: the orphaned archive records are deleted
ReloadDeleteOrphans ==
    /\ reload_pc = "remapped"
    /\ Store(delete_orphans(Database))
    /\ reload_pc' = "cleaned"
    /\ UNCHANGED <<pending, now_dt, tx, race, attribute_id_map, reload_snapshot, derived_attributes,
                   old_attribute_mapping, ops, last, history>>

RunRecord(clean) ==
    [snapshot |-> reload_snapshot, element |-> element, attribute |-> attribute,
     archive |-> archive, clean |-> clean]

\* populate_database: the foreign key is added again; 4. create_indexes
ReloadRestoreForeignKey ==
    /\ reload_pc = "cleaned"
    /\ Store(restore_foreign_key(Database))
    /\ attribute_id_map' \in PathMappings(element, attribute)
    /\ reload_pc' = "idle"
    /\ last' = [last EXCEPT !.op = "reload_done"]
    /\ history' = [history EXCEPT
                      !.runs = IF Len(@) = 2 THEN <<@[2], RunRecord(history.clean)>>
                               ELSE Append(@, RunRecord(history.clean)),
                      !.clean = TRUE]
    /\ UNCHANGED <<pending, now_dt, tx, race, reload_snapshot, derived_attributes,
                   old_attribute_mapping, ops>>

ReloadNext ==
    \/ \E snapshot \in Snapshots : ReloadBackup(snapshot)
    \/ ReloadCreateTables
    \/ ReloadProcessTree
    \/ ReloadRestoreDerived
    \/ ReloadUpdateArchiveIds
    \/ ReloadDeleteOrphans
    \/ ReloadRestoreForeignKey

Next == EngineNext \/ ReloadNext

MaxDuring == 1      \* rows an ingestion worker writes while a reload runs

Rebuilding == reload_pc \in {"torn_down", "rebuilt", "restored", "remapped", "cleaned"}

\* populate_data of an ingestion worker committing between two phases of a
\* running reload; the worker maps the PI paths with the ids it loaded before
IngestDuringReload(row) ==
    /\ Rebuilding
    /\ Cardinality(history.during) < MaxDuring
    /\ row.value # NULL
    /\ row \notin BagToSet(history.before.archive)
    /\ LET r == populate_data(Database, <<row>>)
       IN /\ r.error = ""
          /\ Store(r.db)
    /\ history' = [history EXCEPT !.during = @ \cup {row}, !.clean = FALSE]
    /\ UNCHANGED <<pending, now_dt, tx, race, attribute_id_map, reload_vars, ops, last>>

ReloadIngestNext ==
    \/ ReloadNext
    \/ \E df \in Batches : PopulateData(df)
    \/ \E row \in IngestRows : IngestDuringReload(row)

\* populate.main is one script: a phase that can run does run
ReloadFairness ==
    /\ WF_vars(ReloadCreateTables)
    /\ WF_vars(ReloadProcessTree)
    /\ WF_vars(ReloadRestoreDerived)
    /\ WF_vars(ReloadUpdateArchiveIds)
    /\ WF_vars(ReloadDeleteOrphans)
    /\ WF_vars(ReloadRestoreForeignKey)

\* ------------------------------------------------- concurrent ingestion
\* Each worker runs populate_data on its own connection under READ COMMITTED:
\* the COPY and the triggers it fires read the committed rows, and the rows
\* they write are seen by the others at conn.commit().
Serial == \A w \in Workers : ~tx[w].open

KeysOf(b) == {<<r.attribute_id, r.timestamp>> : r \in BagToSet(b)}

TouchedKeys(t) == KeysOf(t.add) \cup KeysOf(t.del)

\* cur.copy_from(...) of populate_data on the connection of worker w; a
\* statement that meets a key another open transaction wrote waits for it
WorkerCopy(w, df) ==
    /\ reload_pc = "idle"
    /\ ops < MaxOps
    /\ ~tx[w].open
    /\ LET rows == DropDuplicates(df, {})
           st == InsertStatement(TriggerDb(Database), unique_constraint, archive, rows)
           mine == [open |-> TRUE, add |-> st.archive (-) archive,
                    del |-> archive (-) st.archive]
           alone == Serial
       IN /\ unique_constraint =>
                \A o \in Workers \ {w} :
                    tx[o].open => TouchedKeys(tx[o]) \cap (TouchedKeys(mine) \cup KeysOf(SetToBag({rows[i] : i \in DOMAIN rows}))) = {}
          /\ tx' = IF st.ok THEN [tx EXCEPT ![w] = mine] ELSE tx
          /\ race' = IF ~st.ok THEN race
                     ELSE IF alone
                          THEN [NoRace EXCEPT !.phase = "first", !.base = Database,
                                              !.first = rows]
                     ELSE IF race.phase = "first"
                          THEN [race EXCEPT !.phase = "both", !.second = rows]
                     ELSE [NoRace EXCEPT !.phase = "many"]
          /\ last' = [NoCall EXCEPT !.op = "populate_data",
                                    !.error = IF st.ok THEN "" ELSE "StorageError"]
    /\ ops' = ops + 1
    /\ Touched
    /\ UNCHANGED <<db_vars, pending, now_dt, attribute_id_map, reload_vars>>

\* conn.commit() of populate_data on the connection of worker w
WorkerCommit(w) ==
    /\ tx[w].open
    /\ LET after == (archive (-) tx[w].del) (+) tx[w].add
           closed == \A o \in Workers \ {w} : ~tx[o].open
       IN /\ Store([Database EXCEPT !.archive = after])
          /\ race' = IF ~closed THEN race
                     ELSE IF race.phase = "both"
                          THEN [race EXCEPT !.phase = "done", !.result = after]
                     ELSE NoRace
    /\ tx' = [tx EXCEPT ![w] = NoTx]
    /\ UNCHANGED <<pending, now_dt, attribute_id_map, reload_vars, ops, last, history>>

ConcNext ==
    \/ Serial /\ \E d \in AttributeData : InsertAttribute(d)
    \/ Serial /\ \E a \in 1..MaxAttrId, d \in UpdateData : UpdateAttribute(a, d)
    \/ Serial /\ \E a \in 1..MaxAttrId : DeleteAttribute(a)
    \/ \E w \in Workers, df \in Batches : WorkerCopy(w, df)
    \/ \E w \in Workers : WorkerCommit(w)

SpecConc == Init /\ [][ConcNext]_vars

Spec == Init /\ [][Next]_vars

\* the same steps, with a reload that was started carried on phase by phase
SpecFair == Spec /\ ReloadFairness

\* the reload with ingestion before it and while it runs
SpecReloadIngest == Init /\ [][ReloadIngestNext]_vars

\* the cleaning of populate_data over the frames of the feed
SpecIngest == Init /\ [][\E df \in RawBatches : IngestFrame(df)]_vars

\* the hierarchy under the element API and the reload
SpecElements == Init /\ [][ElementNext \/ ReloadNext]_vars

\* ---------------------------------------------------- model consistency
TypeOK ==
    /\ \A e \in element : e.element_id \in 1..element_seq
    /\ \A a \in attribute : a.attribute_id \in 1..attribute_seq
    /\ IsABag(archive)
    /\ pg_trigger = DOMAIN pg_proc
    /\ pg_trigger # {} => unique_constraint
    /\ unique_constraint => ~HasDuplicateKey(archive)
    /\ ops \in 0..MaxOps

\* ----------------------------------------------------------- properties
Quiescent == reload_pc = "idle"

\* the attributes with a registered formula, and the sources the formula reads
DerivedIds == DOMAIN pg_proc \cap AttrIds(attribute)
SourcesOf(d) == FormulaRefs(pg_proc[d])

\* a row with a value is stored for (a, t)
Present(arch, a, t) == \E r \in RowsAt(arch, a, t) : r.value # NULL

\* C1: in every quiescent state, for every derived attribute D and every
\* timestamp t, D has an archive record at t if and only if every source
\* attribute of D has an archive record (with a value) at t.
C1_StrictAnd ==
    Quiescent =>
        \A d \in DerivedIds : \A t \in Timestamps :
            HasKey(archive, d, t) <=> \A a \in SourcesOf(d) : Present(archive, a, t)

\* C5: the archive holds at most one record per (attribute_id, timestamp).
C5_Uniqueness ==
    \A a \in 1..MaxAttrId, t \in Timestamps : KeyCount(archive, a, t) <= 1

\* a run of populate.main has just completed
ReloadCompleted == reload_pc = "idle" /\ last.op = "reload_done"

PathsOf(rows) == {r[2] : r \in rows}
\* the id of a full path that one attribute only has
IdOfPath(rows, p) == (CHOOSE r \in rows : r[2] = p)[1]
UniquePath(rows, p) == Cardinality({r \in rows : r[2] = p}) = 1

\* the full paths that one attribute has before the reload and one after it
SurvivingPaths ==
    LET now == FullPathRows(element, attribute)
    IN {p \in PathsOf(history.before.paths) \cap PathsOf(now) :
            UniquePath(history.before.paths, p) /\ UniquePath(now, p)}

OmittedPaths ==
    PathsOf(history.before.paths) \ PathsOf(FullPathRows(element, attribute))

\* C2: for every attribute whose full path exists before a reload and in the
\* snapshot, the (timestamp, value) rows under the path's new id after the
\* reload are exactly the rows the path had before it.
C2_ReloadPathStability ==
    ReloadCompleted =>
        \A p \in SurvivingPaths :
            SeriesOf(archive, IdOfPath(FullPathRows(element, attribute), p))
                = SeriesOf(history.before.archive, IdOfPath(history.before.paths, p))

\* C7: when the snapshot omits the path of an attribute, none of that
\* attribute's rows is left after the reload, under any surviving attribute,
\* and no archive row references an attribute_id missing from the attribute table.
C7_OrphanCleanup ==
    ReloadCompleted =>
        /\ \A r \in BagToSet(archive) : r.attribute_id \in AttrIds(attribute)
        /\ \A q \in OmittedPaths : \A o \in {x \in history.before.paths : x[2] = q} :
             \A gone \in RowsOfAttr(history.before.archive, o[1]) :
                \A p \in SurvivingPaths :
                   LET n == IdOfPath(FullPathRows(element, attribute), p)
                       was == IdOfPath(history.before.paths, p)
                   IN CopiesIn(Row(n, gone.timestamp, gone.value), archive)
                        <= CopiesIn(Row(was, gone.timestamp, gone.value),
                                    history.before.archive)

\* the database of a completed run under path-based identity
PathView(run) ==
    LET rows == FullPathRows(run.element, run.attribute)
        pathsOfId(i) == {r[2] : r \in {x \in rows : x[1] = i}}
    IN [elements |-> {<<ElementPath(run.element, e), e.level>> : e \in run.element},
        attributes |-> {<<r[2], (CHOOSE a \in run.attribute : a.attribute_id = r[1]).kks>>
                           : r \in rows},
        archive |-> {<<pathsOfId(r.attribute_id), r.timestamp, r.value, run.archive[r]>>
                        : r \in BagToSet(run.archive)}]

\* C10: a second run of the reload against the same snapshot, right after the
\* first, ends in the state the first run ended in (elements, attributes and
\* archive rows under path-based identity).
C10_ReloadIdempotent ==
    (ReloadCompleted /\ Len(history.runs) = 2 /\ history.runs[2].clean
        /\ history.runs[1].snapshot = history.runs[2].snapshot)
      => PathView(history.runs[2]) = PathView(history.runs[1])

\* C6: running backfill for a derived attribute twice in a row, the source
\* rows not changing in between, leaves the archive after the second run
\* equal to the archive after the first run.
C6_IdempotentBackfill ==
    (Quiescent /\ ~HasDuplicateKey(archive)) =>
        \A d \in AttrIds(attribute), f \in Formulas :
            (FormulaRefs(f) # {} /\ d \notin FormulaRefs(f)) =>
                \A once \in backfill_derived_attribute(Database, d, f) :
                    once.error = "" =>
                        \A twice \in backfill_derived_attribute(once.db, d, f) :
                            twice.error = "" /\ twice.db.archive = once.db.archive

\* the step is a call of update_attribute on an existing attribute
UpdateCall ==
    /\ ops' = ops + 1
    /\ last'.op = "update_attribute"
    /\ last'.id \in AttrIds(attribute)

\* C8: update_attribute with a formula on an attribute that has no derived
\* registration fails with NotDerived and leaves the archive rows, the
\* attribute row and all registrations as they were.
C8_NotDerivedRejected ==
    [][(UpdateCall /\ last'.formula /\ ~last'.derived) =>
          /\ last'.error = "NotDerived"
          /\ UNCHANGED <<archive, attribute, pg_proc, pg_trigger>>]_vars

C8_Witness ==
    /\ last.op = "update_attribute" /\ last.formula /\ ~last.derived
    /\ last.error = "NotDerived"
    /\ last.name = "E"
    /\ \E a \in attribute : a.attribute_id = last.id /\ a.name # "E"
    /\ AttrCount(archive, last.id) > 0

MetadataOnlyCall ==
    UpdateCall /\ ~last'.formula /\ (last'.name # "" \/ last'.kks # "")

\* C9 as stated: update_attribute with name and/or kks and no formula
\* succeeds and changes those fields for any existing attribute, with a
\* derived registration or without.
C9_MetadataOnlyAlways ==
    [][MetadataOnlyCall =>
          /\ last'.error = ""
          /\ attribute' = WithFields(attribute, last'.id, last'.name, last'.kks)]_vars

\* C9 amended: update_attribute with name and/or kks and no formula succeeds
\* and changes those fields for an existing attribute that has a derived
\* registration (trigger function); for an attribute without one it fails
\* with NotDerived and changes nothing.
C9_MetadataOnlyDerived ==
    [][MetadataOnlyCall =>
          IF last'.derived
          THEN /\ last'.error = ""
               /\ attribute' = WithFields(attribute, last'.id, last'.name, last'.kks)
               /\ UNCHANGED <<archive, pg_proc, pg_trigger>>
          ELSE /\ last'.error = "NotDerived"
               /\ UNCHANGED <<archive, attribute, pg_proc, pg_trigger>>]_vars

C9_Witness ==
    /\ last.op = "update_attribute" /\ ~last.formula /\ last.derived
    /\ last.error = ""
    /\ last.name = "E" /\ last.kks = "k3"
    /\ \E a \in attribute : a.attribute_id = last.id /\ a.name = "E" /\ a.kks = "k3"

\* the derived attributes with an active trigger and two sources, both of
\* them attributes of the feed: in the attribute table, with no registration
TwoSourceDerived ==
    {d \in pg_trigger \cap AttrIds(attribute) :
        /\ Cardinality(SourcesOf(d)) = 2
        /\ SourcesOf(d) \subseteq AttrIds(attribute) \ DOMAIN pg_proc}

\* the archive after two ingestion writes of one row each, first then second
WriteBoth(S, first, second) ==
    populate_data(populate_data(S, <<first>>).db, <<second>>).db.archive

ExactlyOne(arch, row) ==
    /\ RowsAt(arch, row.attribute_id, row.timestamp) = {row}
    /\ CopiesIn(row, arch) = 1

\* C3: for a derived attribute with an active trigger and two sources A and B,
\* inserting A's row at t then B's row at t, or B's then A's, both end with
\* exactly one derived row at t whose value is the formula of the two values.
C3_OrderIndependent ==
    Quiescent =>
        \A d \in TwoSourceDerived : \A A \in SourcesOf(d) : \A B \in SourcesOf(d) \ {A} :
            \A t \in Timestamps, vA \in Values, vB \in Values :
                (~HasKey(archive, A, t) /\ ~HasKey(archive, B, t)) =>
                    LET v == EvalFormula(pg_proc[d], (A :> vA) @@ (B :> vB))
                    IN /\ ExactlyOne(WriteBoth(Database, Row(A, t, vA), Row(B, t, vB)),
                                     Row(d, t, v))
                       /\ ExactlyOne(WriteBoth(Database, Row(B, t, vB), Row(A, t, vA)),
                                     Row(d, t, v))

\* the two overlapping writes were one row each, for two different sources of
\* one derived attribute with an active trigger, at one timestamp
SiblingWrites ==
    /\ race.phase = "done"
    /\ Len(race.first) = 1 /\ Len(race.second) = 1
    /\ race.first[1].timestamp = race.second[1].timestamp
    /\ race.first[1].attribute_id # race.second[1].attribute_id
    /\ \E d \in race.base.pg_trigger \cap AttrIds(race.base.attribute) :
          {race.first[1].attribute_id, race.second[1].attribute_id}
              \subseteq FormulaRefs(race.base.pg_proc[d]) \ DOMAIN race.base.pg_proc

\* C4: when two ingestion workers on separate connections write, at the same
\* time, rows for two different sources of one derived attribute at one
\* timestamp, the archive after both have committed is the archive the two
\* writes leave when they run one after the other.
C4_ConcurrentAsSequential ==
    SiblingWrites =>
        race.result \in {WriteBoth(race.base, race.first[1], race.second[1]),
                         WriteBoth(race.base, race.second[1], race.first[1])}

\* the full path id i has in the path rows, <<>> when it has none
PathOfId(rows, i) ==
    IF \E r \in rows : r[1] = i THEN (CHOOSE r \in rows : r[1] = i)[2] ELSE <<>>

\* C11: after a reload completes no active registration is bound to a
\* pre-reload id: the id every active trigger writes and the ids it reads
\* denote, in the new attribute table, the attributes (paths) they denoted
\* before the reload.
C11_NoStaleRegistration ==
    ReloadCompleted =>
        \A d \in pg_trigger : \A i \in {d} \cup SourcesOf(d) :
            /\ i \in AttrIds(attribute)
            /\ PathOfId(FullPathRows(element, attribute), i)
                 = PathOfId(history.before.paths, i)

\* C12: when a new archive row for a source A of a derived attribute D with an
\* active trigger is inserted at t: if every source of D then has a non-null
\* value at t, D has exactly one row at t, holding the formula of those
\* values; if a source is missing at t, no row of D at t is created; either
\* way the insert succeeds.
C12_TriggerOnInsert ==
    Quiescent =>
        \A D \in {d \in pg_trigger \cap AttrIds(attribute) : d \notin SourcesOf(d)} :
            \A A \in SourcesOf(D) \cap AttrIds(attribute) :
                \A t \in Timestamps, v \in Values :
                    ~HasKey(archive, A, t) =>
                        LET r == populate_data(Database, <<Row(A, t, v)>>)
                            after == r.db.archive
                            val == [a \in SourcesOf(D) |-> FetchValue(after, a, t)]
                        IN /\ r.error = ""
                           /\ IF \A a \in SourcesOf(D) : Present(after, a, t)
                              THEN ExactlyOne(after, Row(D, t, EvalFormula(pg_proc[D], val)))
                              ELSE RowsAt(after, D, t) = RowsAt(archive, D, t)

\* C13: when the value of a stored archive row of a source A at t is updated,
\* every derived attribute with an active trigger that reads A and has all its
\* sources present at t holds, after the update, the formula of the current
\* source values at t.  The update is UpdateValue, the only UPDATE of
\* archive.value the program issues (the DO UPDATE of a trigger whose derived
\* attribute is read by another); the triggers are AFTER INSERT triggers.
C13_RecomputeOnUpdate ==
    Quiescent =>
        \A D \in {d \in pg_trigger \cap AttrIds(attribute) : d \notin SourcesOf(d)} :
            \A A \in SourcesOf(D) : \A t \in Timestamps, v \in Values :
                (/\ \A a \in SourcesOf(D) : Present(archive, a, t)
                 /\ KeyCount(archive, A, t) = 1
                 /\ v # FetchValue(archive, A, t)) =>
                    LET after == UpdateValue(archive, A, t, v)
                        val == [a \in SourcesOf(D) |-> FetchValue(after, a, t)]
                    IN ExactlyOne(after, Row(D, t, EvalFormula(pg_proc[D], val)))

\* C14: creating a derived attribute, or changing the formula of one, with a
\* formula that holds no $N token ends with the error InvalidFormula, whatever
\* the create_trigger / recreate_trigger / recompute_archive options are.
C14_InvalidFormula ==
    [][(/\ ops' = ops + 1
        /\ last'.op \in {"insert_attribute", "update_attribute"}
        /\ last'.formula
        /\ FormulaRefs(last'.data.formula) = {}
        /\ last'.op = "update_attribute" => last'.derived /\ last'.id \in AttrIds(attribute))
          => last'.error = "InvalidFormula"]_vars

\* the ids a formula of the last request reads that name no attribute row,
\* neither before the call nor the row the call itself inserts
UnknownRefs ==
    FormulaRefs(last'.data.formula) \ (AttrIds(attribute) \cup {attribute_seq + 1})

\* C15: creating a derived attribute whose formula reads an attribute id that
\* does not exist fails with UnknownAttribute and leaves the attribute table,
\* the archive and the registrations as they were.
C15_UnknownAttributeNoMutation ==
    [][(/\ ops' = ops + 1
        /\ last'.op = "insert_attribute"
        /\ last'.formula
        /\ UnknownRefs # {})
          => /\ last'.error = "UnknownAttribute"
             /\ UNCHANGED <<attribute, archive, pg_proc, pg_trigger>>]_vars

\* the ids the formula of an update request reads that name no attribute row
UnknownUpdateRefs == FormulaRefs(last'.data.formula) \ AttrIds(attribute)

\* C16: changing the formula of a derived attribute to one that reads an
\* attribute id that does not exist reports the validation error and leaves
\* the attribute's name and kks, its archive rows and its trigger as they were.
C16_UpdateValidatedFirst ==
    [][(/\ UpdateCall
        /\ last'.derived
        /\ last'.formula
        /\ UnknownUpdateRefs # {})
          => /\ last'.error = "UnknownAttribute"
             /\ UNCHANGED <<attribute, pg_proc, pg_trigger>>
             /\ RowsOfAttr(archive', last'.id) = RowsOfAttr(archive, last'.id)]_vars

\* an insert_attribute call that carried a formula and inserted its row
CreateDerivedCall ==
    /\ ops' = ops + 1
    /\ last'.op = "insert_attribute"
    /\ last'.formula
    /\ last'.id = attribute_seq + 1

\* C17: when the backfill or the installation of the trigger fails while a
\* derived attribute is created, the call reports an error, the attribute row
\* it inserted stays in the attribute table, and the attribute has no
\* registration; a call that reports success with create_trigger has installed
\* the trigger with the formula.
C17_FailedCreateKeepsRow ==
    [][CreateDerivedCall =>
          /\ Attribute(last'.id, last'.data.element_id, last'.data.name, last'.data.kks)
               \in attribute'
          /\ IF last'.error # ""
             THEN /\ last'.id \notin DOMAIN pg_proc'
                  /\ last'.id \notin pg_trigger'
             ELSE last'.data.create_trigger =>
                     /\ last'.id \in pg_trigger'
                     /\ pg_proc'[last'.id] = last'.data.formula]_vars

\* the rows "INSERT ... SELECT DISTINCT timestamp, formula ... WHERE formula IS
\* NOT NULL" yields for attribute d over the source rows stored in arch
BackfillRows(arch, d, formula) ==
    LET refs == FormulaRefs(formula)
        value(t) == EvalFormula(formula, [a \in refs |-> FetchValue(arch, a, t)])
    IN {Row(d, t, value(t)) :
          t \in {s \in Timestamps : (\E a \in refs : HasKey(arch, a, s)) /\ value(s) # NULL}}

\* a successful update of the formula of a derived attribute with the
\* default options
DefaultFormulaUpdate ==
    /\ UpdateCall
    /\ last'.derived
    /\ last'.formula
    /\ last'.data.recompute_archive
    /\ last'.data.recreate_trigger
    /\ last'.error = ""

\* C18: after a successful formula update with recompute_archive and
\* recreate_trigger, the attribute's archive rows are exactly the backfill of
\* the new formula over the stored source rows, each stored once, and the
\* active trigger of the attribute evaluates the new formula.
C18_FormulaUpdateRecomputes ==
    [][DefaultFormulaUpdate =>
          /\ RowsOfAttr(archive', last'.id)
               = BackfillRows(archive', last'.id, last'.data.formula)
          /\ \A r \in RowsOfAttr(archive', last'.id) : CopiesIn(r, archive') = 1
          /\ last'.id \in pg_trigger'
          /\ pg_proc'[last'.id] = last'.data.formula]_vars

C18_Witness ==
    /\ last.op = "update_attribute" /\ last.derived /\ last.formula /\ last.error = ""
    /\ last.data.recompute_archive /\ last.data.recreate_trigger
    /\ last.results.archive_records_deleted > 0
    /\ last.results.archive_records_inserted = 0
    /\ AttrCount(archive, last.id) = 0
    /\ last.id \in pg_trigger
    /\ pg_proc[last.id] = last.data.formula

\* C19: when the update of a formula fails after it began, the caller gets a
\* report that says for the trigger drop, the archive delete, the backfill and
\* the trigger reinstall whether each happened, in agreement with the database.
C19_PartialFailureReport ==
    [][(/\ UpdateCall
        /\ last'.derived
        /\ last'.formula
        /\ last'.error # "")
          => /\ "trigger_dropped" \in DOMAIN last'.results
             /\ last'.results.trigger_dropped = (last'.id \notin DOMAIN pg_proc')
             /\ last'.data.recompute_archive =>
                   /\ "archive_records_deleted" \in DOMAIN last'.results
                   /\ ("archive_records_inserted" \in DOMAIN last'.results)
                        = (last'.error \notin {"UnknownAttribute", "StorageError"})
             /\ ("trigger_created" \in DOMAIN last'.results) = (last'.id \in pg_trigger')]_vars

\* C20: after delete_attribute(a) returns, the archive holds no row of a, the
\* attribute table has no row a, and neither trigger nor function of a is
\* registered; the reported archive_records_deleted is the number of rows a
\* had before the call; the call succeeds whether or not a had a trigger.
C20_DeleteRemovesAll ==
    [][(ops' = ops + 1 /\ last'.op = "delete_attribute") =>
          /\ last'.error = ""
          /\ AttrCount(archive', last'.id) = 0
          /\ last'.id \notin AttrIds(attribute')
          /\ last'.id \notin DOMAIN pg_proc'
          /\ last'.id \notin pg_trigger'
          /\ last'.count = AttrCount(archive, last'.id)]_vars

C20_Witness ==
    /\ last.op = "delete_attribute" /\ last.error = "" /\ last.derived
    /\ last.count > 0
    /\ AttrCount(archive, last.id) = 0
    /\ last.id \notin AttrIds(attribute)
    /\ last.id \notin DOMAIN pg_proc

\* C21: when a source value at timestamp t has changed, running the backfill
\* of a derived attribute again brings its stored row at t to the formula's
\* value over the current source values.
C21_BackfillUpdatesChanged ==
    Quiescent =>
        \A D \in {d \in pg_trigger \cap AttrIds(attribute) : d \notin SourcesOf(d)} :
            \A A \in SourcesOf(D) : \A t \in Timestamps, v \in Values :
                (/\ \A a \in SourcesOf(D) : Present(archive, a, t)
                 /\ SourcesOf(D) \subseteq AttrIds(attribute)
                 /\ KeyCount(archive, A, t) = 1
                 /\ KeyCount(archive, D, t) = 1
                 /\ v # FetchValue(archive, A, t)) =>
                    LET changed == [Database EXCEPT !.archive = UpdateValue(archive, A, t, v)]
                        val == [a \in SourcesOf(D) |-> FetchValue(changed.archive, a, t)]
                    IN \A b \in backfill_derived_attribute(changed, D, pg_proc[D]) :
                          /\ b.error = ""
                          /\ ExactlyOne(b.db.archive,
                                        Row(D, t, EvalFormula(pg_proc[D], val)))

\* the elements of the rebuilt tree at the recorded path of a backed-up
\* derived attribute
ElementsAt(path) == {e \in element : ElementPath(element, e) = path}

\* the attribute rows that stand for the backed-up derived attribute d
RestoredAs(d) ==
    {a \in attribute : a.name = d.name
                       /\ \E e \in ElementsAt(d.element_path) : a.element_id = e.element_id}

\* an attribute of d's name was under d's element before d was restored
NameTaken(i) ==
    LET d == derived_attributes[i]
    IN \/ d.name \in SourceNames
       \/ \E j \in DOMAIN derived_attributes \ {i} :
             /\ derived_attributes[j].name = d.name
             /\ derived_attributes[j].element_path = d.element_path

RemapFailed == reload_pc = "idle" /\ last.op = "reload" /\ last.error # ""

\* C22: every derived attribute backed up before the reload whose element path
\* is in the rebuilt tree is in the attribute table once the derived attributes
\* are restored (with its name, and with its kks unless the name was taken),
\* and once the remap has run its rows of before the reload are stored under
\* its new id.
C22_DerivedRestoredAndRemapped ==
    \A i \in DOMAIN derived_attributes :
        LET d == derived_attributes[i]
        IN ElementsAt(d.element_path) # {} =>
              /\ reload_pc \in {"restored", "remapped"} =>
                    /\ RestoredAs(d) # {}
                    /\ NameTaken(i) \/ \A a \in RestoredAs(d) : a.kks = d.kks
              /\ (reload_pc = "remapped" \/ RemapFailed) =>
                    \A a \in RestoredAs(d) :
                        DOMAIN SeriesOf(history.before.archive, d.attribute_id)
                            \subseteq DOMAIN SeriesOf(archive, a.attribute_id)

\* the backed-up derived attributes whose element path the rebuilt tree lacks
DroppedDerived ==
    {i \in DOMAIN derived_attributes : ElementsAt(derived_attributes[i].element_path) = {}}

RestoredPhase == reload_pc \in {"restored", "remapped", "cleaned"}

Orphans(arch, attrs) == {r \in BagToSet(arch) : r.attribute_id \notin AttrIds(attrs)}

\* C24: in a reload the archive rows whose attribute_id matches no attribute
\* are deleted before the foreign key of the archive is restored: the foreign
\* key stays absent from the teardown until the cleanup has run, it is never
\* present in a state that holds an orphaned row, and a completed reload ends
\* with it present.
C24_CleanBeforeForeignKey ==
    /\ fkey_constraint => Orphans(archive, attribute) = {}
    /\ reload_pc \in {"torn_down", "rebuilt", "restored", "remapped", "cleaned"}
          => ~fkey_constraint
    /\ ReloadCompleted => fkey_constraint

\* C25: the teardown of a reload (the foreign key suspended, the element and
\* attribute tables dropped and made anew) leaves the archive records as they
\* were: none deleted, none added, none changed.
C25_TeardownKeepsArchive ==
    [][(reload_pc = "backed_up" /\ reload_pc' = "torn_down") =>
          /\ archive' = archive
          /\ archive' = history.before.archive
          /\ element' = {} /\ attribute' = {} /\ ~fkey_constraint']_vars

C25_Witness ==
    /\ reload_pc = "torn_down"
    /\ archive # EmptyBag
    /\ archive = history.before.archive
    /\ attribute = {}
    /\ ~fkey_constraint

\* C26: in every state reached through the reload, insert_element and
\* delete_element, the level of each element is its depth: 0 without parent,
\* the level of its parent plus 1 otherwise.
C26_LevelIsDepth ==
    \A e \in element :
        IF e.parent_id = NULL THEN e.level = 0
        ELSE \E p \in element : p.element_id = e.parent_id /\ e.level = p.level + 1

\* the rows of a frame that name an attribute
ValidRows(df) == {i \in DOMAIN df : df[i].attribute_id # NULL}

\* the first valid row of the frame with the key of row i
FirstOfKey(df, i) ==
    CHOOSE j \in ValidRows(df) :
        /\ df[j].attribute_id = df[i].attribute_id /\ df[j].timestamp = df[i].timestamp
        /\ \A m \in ValidRows(df) :
              (df[m].attribute_id = df[i].attribute_id /\ df[m].timestamp = df[i].timestamp)
                 => j <= m

\* C27: of every ingested batch the rows handed to the archive hold at most
\* one row per (attribute_id, timestamp), the one of a key being its first
\* occurrence in the batch, in the order of the batch, with True and False
\* handed over as 1 and 0; these rows are what the archive gains.
C27_FirstOccurrenceWins ==
    [][(ops' = ops + 1 /\ last'.op = "populate_data" /\ last'.error = "") =>
          LET df == last'.data
              handed == last'.results
              firsts == {i \in ValidRows(df) : FirstOfKey(df, i) = i}
          IN /\ \A i, j \in DOMAIN handed :
                   (handed[i].attribute_id = handed[j].attribute_id
                      /\ handed[i].timestamp = handed[j].timestamp) => i = j
             /\ Len(handed) = Cardinality(firsts)
             /\ \A i \in DOMAIN handed :
                   LET src == SortedSeq(firsts)[i]
                   IN /\ handed[i].attribute_id = df[src].attribute_id
                      /\ handed[i].timestamp = df[src].timestamp
                      /\ df[src].value = RawBool(TRUE) => handed[i].value = 1
                      /\ df[src].value = RawBool(FALSE) => handed[i].value = 0
                      /\ df[src].value = RawNumber(MaxVal) => handed[i].value = MaxVal
                      /\ df[src].value = RawNone => handed[i].value = NULL
             /\ \A r \in BagToSet(archive') \cup BagToSet(archive) :
                   CopiesIn(r, archive') - CopiesIn(r, archive)
                      = Cardinality({i \in DOMAIN handed : handed[i] = r})]_vars

C27_Witness ==
    /\ last.op = "populate_data" /\ last.error = ""
    /\ Len(last.data) = 3
    /\ last.data[1].value = RawBool(TRUE)
    /\ last.data[2].value = RawBool(FALSE)
    /\ last.data[1].attribute_id = last.data[2].attribute_id
    /\ last.data[1].timestamp = last.data[2].timestamp
    /\ last.data[3].attribute_id # NULL
    /\ last.data[3].timestamp # last.data[1].timestamp
    /\ Len(last.results) = 2
    /\ CopiesIn(Row(last.data[1].attribute_id, last.data[1].timestamp, 1), archive) = 1

\* the path a pre-reload id stood for
PathBefore(i) == PathOfId(history.before.paths, i)

\* copies of (t, v) that attribute i holds by right after the reload: those its
\* path had before, and those written for its path while the reload ran
RightfulCopies(i, t, v) ==
    LET p == PathOfId(FullPathRows(element, attribute), i)
        olds == {o[1] : o \in {x \in history.before.paths : x[2] = p}}
    IN Cardinality({d \in history.during :
                       d.attribute_id \in olds /\ d.timestamp = t /\ d.value = v})
       + Cardinality({o \in olds : CopiesIn(Row(o, t, v), history.before.archive) > 0})

\* C28: a row an ingestion worker writes under a pre-reload id while a reload
\* is between teardown and completion is, when the reload has completed,
\* stored under the new id of the same path if the path survived, and under
\* no attribute of another path, whenever between the phases it was committed.
C28_WriteDuringReload ==
    ReloadCompleted =>
        \A d \in history.during :
            LET p == PathBefore(d.attribute_id)
                now == FullPathRows(element, attribute)
            IN /\ p \in SurvivingPaths =>
                     CopiesIn(Row(IdOfPath(now, p), d.timestamp, d.value), archive) > 0
               /\ \A i \in AttrIds(attribute) :
                     PathOfId(now, i) # p =>
                        CopiesIn(Row(i, d.timestamp, d.value), archive)
                           <= RightfulCopies(i, d.timestamp, d.value)

\* ---------------------------------------------------------------------------
\* A derived attribute created, or given a new formula, while ingestion runs.
\* insert_attribute and update_attribute commit the backfill and only then
\* call create_derived_attribute_trigger: the two are separate transactions
\* on the request's connection, and an ingestion worker commits between them.
\* ---------------------------------------------------------------------------

\* insert_attribute up to the commit of backfill_derived_attribute
CreateBackfill(attribute_data) ==
    /\ reload_pc = "idle"
    /\ pending = NoPending
    /\ ops < MaxOps
    /\ attribute_seq < MaxAttrId
    /\ attribute_data.formula # NoFormula
    /\ attribute_data.create_trigger
    /\ \E r \in insert_attribute(Database, [attribute_data EXCEPT !.create_trigger = FALSE]) :
          /\ Store(r.db)
          /\ pending' = IF r.error = ""
                        THEN [op |-> "insert_attribute", id |-> r.attribute_id,
                              formula |-> attribute_data.formula]
                        ELSE NoPending
          /\ last' = [NoCall EXCEPT !.op = "insert_attribute", !.id = r.attribute_id,
                                    !.error = r.error, !.formula = TRUE,
                                    !.data = attribute_data]
    /\ ops' = ops + 1
    /\ Touched
    /\ UNCHANGED <<now_dt, tx, race, attribute_id_map, reload_vars>>

\* update_attribute with a new formula and the default options, up to the
\* commit of backfill_derived_attribute
UpdateBackfill(attribute_id, update_data) ==
    /\ reload_pc = "idle"
    /\ pending = NoPending
    /\ ops < MaxOps
    /\ update_data.formula # NoFormula
    /\ update_data.recompute_archive
    /\ update_data.recreate_trigger
    /\ \E r \in update_attribute(Database, attribute_id,
                                 [update_data EXCEPT !.recreate_trigger = FALSE]) :
          /\ Store(r.db)
          /\ pending' = IF r.error = ""
                        THEN [op |-> "update_attribute", id |-> attribute_id,
                              formula |-> update_data.formula]
                        ELSE NoPending
          /\ last' = [NoCall EXCEPT !.op = "update_attribute", !.id = attribute_id,
                                    !.error = r.error, !.formula = TRUE,
                                    !.derived = attribute_id \in DOMAIN pg_proc,
                                    !.data = update_data]
    /\ ops' = ops + 1
    /\ Touched
    /\ UNCHANGED <<now_dt, tx, race, attribute_id_map, reload_vars>>

\* the call of create_derived_attribute_trigger that ends either request
InstallTrigger ==
    /\ pending # NoPending
    /\ LET t == create_derived_attribute_trigger(Database, pending.id, pending.formula)
       IN /\ Store(t.db)
          /\ last' = [last EXCEPT !.error = t.error]
    /\ pending' = NoPending
    /\ UNCHANGED <<now_dt, tx, race, attribute_id_map, reload_vars, ops, history>>

CreateRaceNext ==
    \/ \E df \in Batches : PopulateData(df)
    \/ \E d \in AttributeData : CreateBackfill(d)
    \/ \E a \in 1..MaxAttrId, d \in UpdateData : UpdateBackfill(a, d)
    \/ InstallTrigger

SpecCreateRace == Init /\ [][CreateRaceNext]_vars

\* C29: once a creation or a formula update that ran alongside ingestion has
\* completed, the derived attribute has a row at every timestamp at which all
\* its sources have rows: no source write is missed by both the backfill and
\* the live trigger.
C29_NoWriteMissed ==
    (pending = NoPending /\ last.error = "") =>
        \A d \in DerivedIds : \A t \in Timestamps :
            (\A a \in SourcesOf(d) : Present(archive, a, t)) => HasKey(archive, d, t)

\* ---------------------------------------------------------------------------
\* The formula as text.  backfill_derived_attribute and
\* create_derived_attribute_trigger turn the formula string into SQL with one
\* str.replace per referenced id, in the iteration order of a set of strings.
\* A string is the sequence of its characters; "v_" and "(SELECT" stand for
\* the fixed text the code puts in front of the id.
\* ---------------------------------------------------------------------------
DigitChars == <<"0", "1", "2", "3", "4", "5", "6", "7", "8", "9">>

IsDigit(c) == \E i \in DOMAIN DigitChars : DigitChars[i] = c

\* f'{attr_id}'
RECURSIVE str(_)
str(n) ==
    IF n < 10 THEN <<DigitChars[n + 1]>>
    ELSE str(n \div 10) \o <<DigitChars[(n % 10) + 1]>>

\* int(aid)
RECURSIVE int(_)
int(ds) ==
    IF ds = <<>> THEN 0
    ELSE 10 * int(SubSeq(ds, 1, Len(ds) - 1))
           + (CHOOSE i \in DOMAIN DigitChars : DigitChars[i] = ds[Len(ds)]) - 1

\* the longest run of digits the string starts with: the greedy \d+
RECURSIVE DigitRun(_)
DigitRun(s) ==
    IF s = <<>> \/ ~IsDigit(Head(s)) THEN <<>>
    ELSE <<Head(s)>> \o DigitRun(Tail(s))

\* the formula string of a sum of terms: "$1+$12" for <<Ref(1), Ref(12)>>
RECURSIVE FormulaText(_)
FormulaText(f) ==
    IF f = <<>> THEN <<>>
    ELSE (IF Head(f).k = "$" THEN <<"$">> ELSE <<>>) \o str(Head(f).n)
         \o (IF Len(f) > 1 THEN <<"+">> ELSE <<>>) \o FormulaText(Tail(f))

\* set(re.findall(r'\$(\d+)', formula)), each already through int()
RECURSIVE findall(_)
findall(s) ==
    IF s = <<>> THEN {}
    ELSE IF Head(s) = "$" /\ DigitRun(Tail(s)) # <<>>
         THEN {int(DigitRun(Tail(s)))}
                \cup findall(SubSeq(s, 2 + Len(DigitRun(Tail(s))), Len(s)))
    ELSE findall(Tail(s))

\* str.replace(old, new): every occurrence, from the left, without overlap
RECURSIVE replace(_, _, _)
replace(s, old, new) ==
    IF Len(s) < Len(old) THEN s
    ELSE IF SubSeq(s, 1, Len(old)) = old
         THEN new \o replace(SubSeq(s, Len(old) + 1, Len(s)), old, new)
    ELSE <<Head(s)>> \o replace(Tail(s), old, new)

\* the orders "for attr_id in attr_ids" can take: attr_ids is built from a
\* set of strings, whose iteration order changes from process to process
IterationOrders(ids) ==
    {o \in [1..Cardinality(ids) -> ids] : \A a \in ids : \E i \in DOMAIN o : o[i] = a}

\* backfill: "(SELECT value FROM archive WHERE attribute_id = {attr_id} AND
\* timestamp = a.timestamp LIMIT 1)" in the place of every f'${attr_id}'
RECURSIVE sql_formula(_, _)
sql_formula(formula, attr_ids) ==
    IF attr_ids = <<>> THEN formula
    ELSE sql_formula(replace(formula, <<"$">> \o str(Head(attr_ids)),
                             <<"(SELECT">> \o str(Head(attr_ids)) \o <<")">>),
                     Tail(attr_ids))

\* trigger: var_name = f"v_{attr_id}" in the place of every f"${attr_id}"
RECURSIVE pg_formula(_, _)
pg_formula(formula, source_attr_ids) ==
    IF source_attr_ids = <<>> THEN formula
    ELSE pg_formula(replace(formula, <<"$">> \o str(Head(source_attr_ids)),
                            <<"v_">> \o str(Head(source_attr_ids))),
                    Tail(source_attr_ids))

\* The tokens PostgreSQL reads the expression as: a number, an identifier
\* v_<digits>, a parenthesised subquery, an operator, a parameter $<digits>.
RECURSIVE Lex(_)
Lex(s) ==
    IF s = <<>> THEN <<>>
    ELSE IF Head(s) = "+" THEN <<[k |-> "op", n |-> 0]>> \o Lex(Tail(s))
    ELSE IF IsDigit(Head(s))
         THEN <<[k |-> "number", n |-> int(DigitRun(s))]>>
                \o Lex(SubSeq(s, 1 + Len(DigitRun(s)), Len(s)))
    ELSE IF Head(s) = "v_"
         THEN <<[k |-> "variable", n |-> int(DigitRun(Tail(s)))]>>
                \o Lex(SubSeq(s, 2 + Len(DigitRun(Tail(s))), Len(s)))
    ELSE IF Head(s) = "(SELECT"
         THEN <<[k |-> "subquery", n |-> int(DigitRun(Tail(s)))]>>
                \o Lex(SubSeq(s, 3 + Len(DigitRun(Tail(s))), Len(s)))
    ELSE <<[k |-> "parameter", n |-> int(DigitRun(Tail(s)))]>>
           \o Lex(SubSeq(s, 2 + Len(DigitRun(Tail(s))), Len(s)))

\* operand (+ operand)*: anything else is a syntax error
WellFormed(tokens) ==
    /\ Len(tokens) % 2 = 1
    /\ \A i \in DOMAIN tokens :
          IF i % 2 = 1 THEN tokens[i].k \in {"number", "variable", "subquery"}
          ELSE tokens[i].k = "op"

\* the sum of the operands, NULL when one of them is NULL
RECURSIVE SumOf(_, _)
SumOf(tokens, val) ==
    IF tokens = <<>> THEN 0
    ELSE LET h == CASE Head(tokens).k = "op" -> 0
                    [] Head(tokens).k = "number" -> Head(tokens).n
                    [] OTHER -> val[Head(tokens).n]
             r == SumOf(Tail(tokens), val)
         IN IF h = NULL \/ r = NULL THEN NULL ELSE h + r

\* what the statement built from the expression computes at one timestamp,
\* val[a] being the value of attribute a there (NULL: no row): an error, or the
\* value of the row written (NULL: no row written)
Computed(text, declared, val) ==
    LET tokens == Lex(text)
        used == {tokens[i].n : i \in {j \in DOMAIN tokens :
                                         tokens[j].k \in {"variable", "subquery"}}}
    IN IF ~WellFormed(tokens) THEN [error |-> "SyntaxError", value |-> NULL]
       ELSE IF used \ declared # {} THEN [error |-> "UndefinedColumn", value |-> NULL]
       ELSE [error |-> "", value |-> SumOf(tokens, val)]

\* SELECT {sql_formula} ... WHERE {sql_formula} IS NOT NULL, the ids taken in
\* the order attr_ids
BackfillValue(formula, attr_ids, val) ==
    Computed(sql_formula(formula, attr_ids), DOMAIN val, val)

\* IF v_a IS NOT NULL AND ... THEN INSERT ... VALUES (.., {pg_formula}), the
\* ids taken in the order source_attr_ids
TriggerValue(formula, source_attr_ids, val) ==
    LET declared == {source_attr_ids[i] : i \in DOMAIN source_attr_ids}
    IN IF \E a \in declared : val[a] = NULL THEN [error |-> "", value |-> NULL]
       ELSE Computed(pg_formula(formula, source_attr_ids), declared, val)

\* the attribute ids the formulas refer to; each of them is an attribute, so
\* that the check for missing ids passes
TextRefIds == {1, 2, 12}

Terms == {Ref(n) : n \in TextRefIds} \cup {Lit(1), Lit(2)}

\* the sums of one or two terms that refer to an attribute
TextFormulas ==
    {f \in UNION {[1..n -> Terms] : n \in 1..2} : FormulaRefs(f) # {}}

SourceValues == [TextRefIds -> Values \cup {NULL}]

\* backfill_derived_attribute builds and runs its statement for the formula;
\* one formula per behaviour, the outcome depends on nothing an earlier call left
BackfillFormula(f, val) ==
    /\ last = NoCall
    /\ \E attr_ids \in IterationOrders(findall(FormulaText(f))) :
          last' = [NoCall EXCEPT !.op = "sql_formula",
                                 !.data = [formula |-> f, val |-> val],
                                 !.results = [backfill |->
                                     BackfillValue(FormulaText(f), attr_ids, val)]]
    /\ UNCHANGED <<db_vars, pending, now_dt, tx, race, attribute_id_map, reload_vars, ops, history>>

\* create_derived_attribute_trigger builds the function for the same formula,
\* and the function runs on the same source values
TriggerFormula ==
    /\ last.op = "sql_formula"
    /\ \E source_attr_ids \in IterationOrders(findall(FormulaText(last.data.formula))) :
          last' = [last EXCEPT !.op = "pg_formula",
                               !.results = @ @@ [trigger |->
                                   TriggerValue(FormulaText(last.data.formula),
                                                source_attr_ids, last.data.val)]]
    /\ UNCHANGED <<db_vars, pending, now_dt, tx, race, attribute_id_map, reload_vars, ops, history>>

FormulaNext ==
    \/ \E f \in TextFormulas, val \in SourceValues : BackfillFormula(f, val)
    \/ TriggerFormula

SpecFormula == Init /\ [][FormulaNext]_vars

\* C30: for every formula and every assignment of source values, backfill and
\* the live trigger compute the same derived value, the one in which each $N
\* stands for the value of attribute N and of no other attribute, whatever the
\* order in which the ids are substituted (also when the digits of one id are a
\* prefix of another's, as with $1 and $12).
C30_SameValueAnyOrder ==
    LET intended == [error |-> "",
                     value |-> EvalFormula(last.data.formula, last.data.val)]
    IN /\ last.op \in {"sql_formula", "pg_formula"} => last.results.backfill = intended
       /\ last.op = "pg_formula" => last.results.trigger = intended

\* ---------------------------------------------------------------------------
\* The remap against the mapping applied to every row at once
\* ---------------------------------------------------------------------------

\* the archive with every row of an old id of the mapping relabelled to its new
\* id in one step, the other rows as they are
SimultaneousRemap(arch, id_mapping) ==
    LET image(r) == IF r.attribute_id \in DOMAIN id_mapping
                    THEN Row(id_mapping[r.attribute_id], r.timestamp, r.value)
                    ELSE r
        targets == {image(r) : r \in BagToSet(arch)}
    IN [x \in targets |->
          BagCardinality([r \in {y \in BagToSet(arch) : image(y) = x} |-> arch[r]])]

\* C31: the remap phase leaves the archive as the old_id -> new_id mapping
\* applied simultaneously to every row leaves it, for every order of the
\* per-id updates: rows of two paths of which one takes the id the other had
\* (a swap, a shift by one) are not merged under one id, and the phase raises
\* only where the simultaneous result would break the unique constraint.
C31_RemapIsSimultaneous ==
    [][(reload_pc = "restored" /\ reload_pc' # "restored") =>
          \E nm \in PathMappings(element, attribute) :
             LET want == SimultaneousRemap(archive, IdMapping(old_attribute_mapping, nm))
             IN IF reload_pc' = "remapped" THEN archive' = want
                ELSE unique_constraint /\ HasDuplicateKey(want)]_vars

\* C32: a formula update with recreate_trigger = false leaves the attribute
\* without a registration, the old trigger and its function dropped and none
\* installed; an attribute without a registration has any later formula update
\* rejected as not derived.
C32_NoRecreateUnregisters ==
    [][/\ (UpdateCall /\ last'.derived /\ last'.formula /\ ~last'.data.recreate_trigger)
             => /\ last'.id \notin DOMAIN pg_proc'
                /\ last'.id \notin pg_trigger'
       /\ (UpdateCall /\ last'.formula /\ last'.id \notin DOMAIN pg_proc)
             => /\ last'.error = "NotDerived"
                /\ last'.id \notin DOMAIN pg_proc'
                /\ last'.id \notin pg_trigger']_vars

C32_Witness ==
    /\ last.op = "update_attribute" /\ last.derived /\ last.formula
    /\ ~last.data.recreate_trigger
    /\ last.error = ""
    /\ last.id \in AttrIds(attribute)
    /\ last.id \notin DOMAIN pg_proc
    /\ last.id \notin pg_trigger
    /\ ops < MaxOps

\* C33: in every committed state the function compute_derived_attr_<id>
\* exists if and only if the trigger trigger_compute_derived_attr_<id> is
\* installed on the archive, so the test for a derived attribute (a look at
\* pg_proc) agrees with whether a trigger fires.
C33_FunctionIffTrigger ==
    \A id \in 1..MaxAttrId : (id \in DOMAIN pg_proc) <=> (id \in pg_trigger)

C33_Witness ==
    /\ last.op \in {"update_attribute", "delete_attribute"}
    /\ last.derived
    /\ last.id \notin DOMAIN pg_proc
    /\ last.id \notin pg_trigger
    /\ \E id \in pg_trigger : id # last.id /\ id \in DOMAIN pg_proc

\* C34: outside a running reload every installed trigger writes to an id of the
\* attribute table and reads only ids of the attribute table, so that no
\* insert of a source row is aborted by a trigger that writes a derived row
\* for an attribute that does not exist.
C34_TriggersReferToAttributes ==
    Quiescent =>
        \A d \in pg_trigger :
            /\ d \in AttrIds(attribute)
            /\ SourcesOf(d) \subseteq AttrIds(attribute)

\* the web API with its element requests, and the reload
ApiNext == EngineNext \/ ElementNext \/ ReloadNext

SpecApi == Init /\ [][ApiNext]_vars

\* the ids some installed trigger reads
TriggerSources == UNION {SourcesOf(d) : d \in pg_trigger}

\* C35: an ingestion insert of rows of attributes that are in the source set of
\* no installed trigger changes nothing in the archive but the rows it adds:
\* no derived row is created, updated or deleted (and nothing at all changes
\* when the insert fails).
C35_NonSourceInsertFrame ==
    [][(/\ ops' = ops + 1
        /\ last'.op = "populate_data"
        /\ \A i \in DOMAIN last'.data : last'.data[i].attribute_id \notin TriggerSources)
          => LET rows == DropDuplicates(last'.data, {})
             IN IF last'.error # "" THEN archive' = archive
                ELSE \A r \in BagToSet(archive) \cup BagToSet(archive') :
                        CopiesIn(r, archive') - CopiesIn(r, archive)
                           = Cardinality({i \in DOMAIN rows : rows[i] = r})]_vars

C35_Witness ==
    /\ last.op = "populate_data" /\ last.error = ""
    /\ \E d \in pg_trigger : AttrCount(archive, d) > 0
    /\ \A i \in DOMAIN last.data :
          /\ last.data[i].attribute_id \notin TriggerSources
          /\ CopiesIn(last.data[i], archive) > 0

\* C36: no two attributes have the same full path (the names of the elements
\* from the root down, then the attribute name), so that the path -> id map of
\* the snapshot phase of a reload has an entry for every attribute.
C36_FullPathUnique ==
    /\ \A r1, r2 \in FullPathRows(element, attribute) : r1[2] = r2[2] => r1[1] = r2[1]
    /\ reload_pc = "backed_up" =>
          \A a \in attribute : \E p \in DOMAIN old_attribute_mapping :
              old_attribute_mapping[p] = a.attribute_id

\* C37: populate_data writes a batch atomically.  When it succeeds every row of
\* the cleaned batch is in the archive, and so is the row of every derived
\* attribute whose trigger a row of the batch fired with all sources present;
\* when a row or a trigger fails the archive is as it was before; in both
\* cases the function returns to its caller without raising.
C37_BatchAtomic ==
    [][(ops' = ops + 1 /\ last'.op = "populate_data") =>
          LET rows == DropDuplicates(last'.data, {})
          IN /\ ~last'.raised
             /\ IF last'.error # "" THEN archive' = archive
                ELSE \A i \in DOMAIN rows :
                        /\ HasKey(archive', rows[i].attribute_id, rows[i].timestamp)
                        /\ CopiesIn(rows[i], archive') >= CopiesIn(rows[i], archive)
                        /\ \A d \in pg_trigger :
                              (/\ rows[i].attribute_id \in SourcesOf(d)
                               /\ \A a \in SourcesOf(d) :
                                     Present(archive', a, rows[i].timestamp))
                                 => HasKey(archive', d, rows[i].timestamp)]_vars

\* a batch of two rows failed whose first row would have gone in alone
C37_Witness ==
    /\ last.op = "populate_data" /\ last.error # "" /\ ~last.raised
    /\ Len(last.data) = 2
    /\ populate_data(Database, <<last.data[1]>>).error = ""
    /\ CopiesIn(last.data[1], archive) = 0
    /\ pg_trigger # {}

\* ---------------------------------------------------------------------------
\* The ingestion worker over successive runs.  Time is counted in hours: the
\* row of hour h stands for the minute values of [h, h + 1), now_dt is the hour
\* the host's clock shows, and a run asks for the hours from the one after the
\* newest archived timestamp up to the last complete one.
\* ---------------------------------------------------------------------------
MaxNow == 5         \* hours the clock runs to

\* SELECT max(timestamp) FROM archive; None on an empty archive
last_ts(arch) ==
    IF BagToSet(arch) = {} THEN NULL
    ELSE CHOOSE t \in {r.timestamp : r \in BagToSet(arch)} :
            \A r \in BagToSet(arch) : r.timestamp <= t

\* the frame read_data returns for the hours lo..hi of the tag A|T
HourFrame(map, lo, hi) ==
    [i \in 1..(hi - lo + 1) |-> Row(map[<<"A", "T">>], lo + i - 1, 1)]

\* the recovery loop: one read_data and one populate_data per hour block, a
\* block that fails is printed and the loop goes on
RECURSIVE RecoverBlocks(_, _, _, _, _)
RecoverBlocks(S, map, q_start, now, failed) ==
    IF q_start >= now THEN S
    ELSE RecoverBlocks(IF q_start \in failed THEN S
                       ELSE populate_data(S, HourFrame(map, q_start, q_start)).db,
                       map, q_start + 1, now, failed)

\* process_database_thread at clock now; main_ok: the read of the whole range
\* came back dense enough, failed: the hour blocks whose read or insert fails
\* in the recovery loop
process_database_thread(S, map, now, main_ok, failed) ==
    LET start_time == last_ts(S.archive) + 1
    IN IF last_ts(S.archive) = NULL
       THEN [db |-> S, error |-> "ValueError", start_time |-> NULL, recovery |-> FALSE]
       ELSE IF main_ok
            THEN [db |-> IF start_time >= now THEN S
                         ELSE populate_data(S, HourFrame(map, start_time, now - 1)).db,
                  error |-> "", start_time |-> start_time, recovery |-> FALSE]
       ELSE IF now = start_time
            THEN [db |-> S, error |-> "", start_time |-> start_time, recovery |-> FALSE]
       ELSE [db |-> RecoverBlocks(S, map, start_time, now, failed),
             error |-> "", start_time |-> start_time, recovery |-> TRUE]

\* the hour passes
Tick ==
    /\ now_dt < MaxNow
    /\ now_dt' = now_dt + 1
    /\ UNCHANGED <<db_vars, attribute_id_map, pending, tx, race, reload_vars, ops, last,
                   history>>

\* one run of the worker of a database
ProcessDatabaseThread(main_ok, failed) ==
    /\ reload_pc = "idle"
    /\ \E r \in {process_database_thread(Database, attribute_id_map, now_dt, main_ok, failed)} :
          /\ Store(r.db)
          /\ last' = [NoCall EXCEPT !.op = "process_database_thread", !.error = r.error,
                                    !.data = [start_time |-> r.start_time, now |-> now_dt,
                                              recovery |-> r.recovery,
                                              failed |-> IF r.recovery
                                                         THEN failed \cap (r.start_time..(now_dt - 1))
                                                         ELSE {}]]
    /\ UNCHANGED <<attribute_id_map, pending, now_dt, tx, race, reload_vars, ops, history>>

\* the load of the last hours of the record, then the clock and the runs
WorkerNext ==
    \/ \E lo \in 1..MaxTs : PopulateData(HourFrame(attribute_id_map, lo, MaxTs))
    \/ Tick
    \/ \E main_ok \in BOOLEAN, failed \in SUBSET ((MaxTs + 1)..(MaxNow - 1)) :
          ProcessDatabaseThread(main_ok, failed)

\* the worker is started again and again, and again and again all its reads
\* and inserts succeed
WorkerFairness ==
    /\ WF_vars(Tick)
    /\ SF_vars(ProcessDatabaseThread(TRUE, {}))
    /\ SF_vars(ProcessDatabaseThread(FALSE, {}))

SpecWorker == Init /\ [][WorkerNext]_vars /\ WorkerFairness

\* the hours after the loaded record and before the clock that have no row
Behind ==
    {b \in (MaxTs + 1)..(now_dt - 1) : ~HasKey(archive, attribute_id_map[<<"A", "T">>], b)}

\* C38: every hour block between the newest archived timestamp and the clock
\* of a run is written to the archive in the end: a block that failed in one
\* run is asked for again by a later run, also when a later block of that run
\* went in.  Rows are never removed here, so this is: from some point on no
\* hour that a run had to ask for is missing.
C38_EveryBlockWritten ==
    <>[](BagToSet(archive) = {} \/ Behind = {})

====
